---- MODULE Spec2Model ----
(***************************************************************************)
(* A model of the file index service: the SQLite-backed IndexService       *)
(* (entries, trigram FTS index, bigram table, watch paths), its search     *)
(* query engine, the crawler's hand-over to the store, the coordinator's   *)
(* watch-root life cycle, the ignore patterns, the watcher's pending       *)
(* events and the threads' connections and lock.                           *)
(*                                                                         *)
(* Strings are sequences of one-character strings, so that substring,      *)
(* LIKE and path operations are computed character by character.           *)
(***************************************************************************)
EXTENDS Integers, Sequences, FiniteSets, Bags, TLC

VARIABLES
    file_metadata,      \* rows of table file_metadata (the Entries)
    file_name_index,    \* FTS5 trigram index: set of <<rowid, term, position>>
    file_name_bigrams,  \* bag of rows <<file_id, bigram>> of table file_name_bigrams
    watch_paths,        \* rows of table watch_paths, keyed by path
    trigram_table,      \* whether init_db could create file_name_index
    lastOp,             \* the store call that produced this state
    nops,               \* how many calls have been made
    resp,               \* the request and the rows of the last search
    disk_ok,            \* whether the root directory exists on disk
    tasks,              \* the background tasks the admin handlers queued
    startup,            \* the position of start_indexing
    ignore_patterns,    \* rows of table ignore_patterns
    pending_events,     \* IndexEventHandler._pending_events, keyed by path
    lock,               \* the holder of IndexService._lock, or "free"
    conn,               \* per thread: its position and its connection's open transaction
    disk,               \* the paths that exist on disk
    watcher             \* the FileWatcher: whether it runs, the roots it observes

vars == <<file_metadata, file_name_index, file_name_bigrams, watch_paths,
          trigram_table, lastOp, nops, resp, disk_ok, tasks, startup,
          ignore_patterns, pending_events, lock, conn, disk, watcher>>

storeVars == <<file_metadata, file_name_index, file_name_bigrams, watch_paths,
               trigram_table>>
coordVars == <<disk_ok, tasks, startup>>
auxVars == <<ignore_patterns, pending_events, lock, conn, disk, watcher>>
worldVars == <<disk, watcher>>

-----------------------------------------------------------------------------
(* Bounds of the model. *)

\* Number of store calls a behaviour of the store specification makes.
MaxOps == 3
\* Largest max_results, offset and depth a modelled search request carries.
MaxResults == 2
MaxOffset == 1
MaxDepth == 2
\* Batch size handed to ParallelScanner (settings.batch_size in the program).
BatchSize == 1
\* Number of admin requests the coordinator model accepts.
MaxRequests == 2
\* Number of add_file calls each thread of the concurrent-writers model makes.
MaxWrites == 2
\* Number of drains of the watcher's pending events that run at one time.
MaxDrains == 2

-----------------------------------------------------------------------------
(* Characters and strings. *)

\* Code points of the characters the model uses (BINARY collation order).
Ord(c) ==
    CASE c = "%" -> 37
      [] c = "*" -> 42
      [] c = "/" -> 47
      [] c = "?" -> 63
      [] c = "A" -> 65
      [] c = "_" -> 95
      [] c = "a" -> 97
      [] c = "b" -> 98
      [] c = "d" -> 100
      [] c = "e" -> 101
      [] c = "r" -> 114
      [] c = "x" -> 120

\* ASCII case folding, as SQLite's LIKE and the trigram tokenizer apply it.
Lower(c) == IF c = "A" THEN "a" ELSE c

LowerS(s) == [i \in 1..Len(s) |-> Lower(s[i])]

\* s[from..] (1-based), the empty string when from is past the end.
Drop(s, n) == SubSeq(s, n + 1, Len(s))
Take(s, n) == SubSeq(s, 1, IF n < Len(s) THEN n ELSE Len(s))

\* Python's `q in s` on strings.
IsSubstr(q, s) ==
    \E i \in 0..(Len(s) - Len(q)) : SubSeq(s, i + 1, i + Len(q)) = q

\* Lexicographic comparison of strings by code point: s < t.
RECURSIVE StrLess(_, _)
StrLess(s, t) ==
    IF t = << >> THEN FALSE
    ELSE IF s = << >> THEN TRUE
    ELSE IF Ord(Head(s)) # Ord(Head(t)) THEN Ord(Head(s)) < Ord(Head(t))
    ELSE StrLess(Tail(s), Tail(t))

\* SQLite's LIKE without ESCAPE: % matches any run of characters, _ matches
\* exactly one character, every other character matches case-insensitively.
RECURSIVE LikeMatch(_, _)
LikeMatch(pat, s) ==
    IF pat = << >> THEN s = << >>
    ELSE IF Head(pat) = "%"
         THEN \E k \in 0..Len(s) : LikeMatch(Tail(pat), Drop(s, k))
    ELSE IF s = << >> THEN FALSE
    ELSE IF Head(pat) = "_" THEN LikeMatch(Tail(pat), Tail(s))
    ELSE Lower(Head(pat)) = Lower(Head(s)) /\ LikeMatch(Tail(pat), Tail(s))

-----------------------------------------------------------------------------
(* pathlib on POSIX paths. *)

\* Index of the last "/" of p, 0 when there is none.
LastSlash(p) ==
    LET S == {i \in 1..Len(p) : p[i] = "/"}
    IN  IF S = {} THEN 0 ELSE CHOOSE i \in S : \A j \in S : j <= i

\* Path(p).name
PathName(p) == Drop(p, LastSlash(p))

\* str(Path(p).parent)
PathParent(p) ==
    IF LastSlash(p) <= 1 THEN <<"/">> ELSE SubSeq(p, 1, LastSlash(p) - 1)

\* Path(p).parts without the leading root: the non-empty components.
RECURSIVE PathParts(_)
PathParts(p) ==
    IF p = << >> THEN << >>
    ELSE IF Head(p) = "/" THEN PathParts(Tail(p))
    ELSE LET S == {i \in 1..Len(p) : p[i] = "/"}
             n == IF S = {} THEN Len(p) + 1 ELSE CHOOSE i \in S : \A j \in S : i <= j
         IN  <<SubSeq(p, 1, n - 1)>> \o PathParts(Drop(p, n - 1))

\* Whether Path(p).relative_to(Path(base)) succeeds (no ValueError).
IsRelativeTo(p, base) ==
    /\ Len(PathParts(base)) <= Len(PathParts(p))
    /\ SubSeq(PathParts(p), 1, Len(PathParts(base))) = PathParts(base)

\* len(Path(p).relative_to(Path(base)).parts)
RelativeDepth(p, base) == Len(PathParts(p)) - Len(PathParts(base))

-----------------------------------------------------------------------------
(* The files of the model's world. *)

P_r   == <<"/", "r">>
P_aab == <<"/", "r", "/", "a", "a", "b">>
P_d   == <<"/", "r", "/", "d">>
P_a_b == <<"/", "r", "/", "d", "/", "a", "_", "b">>
P_e   == <<"/", "r", "/", "d", "/", "e">>
P_aAb == <<"/", "r", "/", "d", "/", "e", "/", "a", "A", "b">>
P_rx  == <<"/", "r", "x">>
P_x   == <<"/", "r", "x", "/", "a", "a", "b">>

Directories == {P_r, P_d, P_e, P_rx}
AllPaths == {P_aab, P_d, P_a_b, P_e, P_aAb, P_x}

\* st_mtime of each path (fixed in the model).
MTimeOf(p) ==
    CASE p = P_aab -> 5
      [] p = P_d   -> 4
      [] p = P_a_b -> 3
      [] p = P_e   -> 2
      [] p = P_aAb -> 1
      [] OTHER     -> 6

\* st_size values a file can have; a directory record always carries 0.
FileSizes == {1, 2}
\* The size a file has when it is first seen.
FirstSize == 1

\* The row of file_metadata that INSERT OR REPLACE writes for a record f.
MkRow(id, f) ==
    [id |-> id, path |-> f.path, name |-> f.name, parent_path |-> f.parent_path,
     type |-> f.file_type, extension |-> f.extension, size |-> f.size,
     mtime |-> f.mtime]

\* The record the crawler and the watcher derive for a path (FileInfo): name,
\* parent_path, file_type, extension and size follow from the path and its stat.
\* No name of the model contains ".", so Path.suffix is the empty string.
MkFileInfo(p, st_size) ==
    LET is_dir == p \in Directories
    IN  [path        |-> p,
         name        |-> PathName(p),
         parent_path |-> PathParent(p),
         file_type   |-> IF is_dir THEN "directory" ELSE "file",
         extension   |-> IF is_dir THEN "None" ELSE "",
         size        |-> IF is_dir THEN 0 ELSE st_size,
         mtime       |-> MTimeOf(p)]

FileInfosOf(paths) == {MkFileInfo(p, FirstSize) : p \in paths}

-----------------------------------------------------------------------------
(* The store: tables and the statements IndexService runs on them.  A value *)
(* db is the committed content [md, tri, bi, wp, tt] of the database.       *)

DB == [md |-> file_metadata, tri |-> file_name_index, bi |-> file_name_bigrams,
       wp |-> watch_paths, tt |-> trigram_table]

MaxOf(S) == CHOOSE x \in S : \A y \in S : y <= x

\* The rowid SQLite gives a row inserted with a NULL INTEGER PRIMARY KEY: one
\* more than the largest rowid in the table (chosen before REPLACE deletes).
NewRowId(md) == IF md = {} THEN 1 ELSE MaxOf({e.id : e \in md}) + 1

\* The tokens the trigram tokenizer produces for a name: every window of three
\* characters, case-folded, with its position.
TrigramTokens(name) ==
    {<<LowerS(SubSeq(name, i, i + 2)), i>> : i \in 1..(Len(name) - 2)}

TrigramTerms(name) == {t[1] : t \in TrigramTokens(name)}

\* INSERT INTO file_name_index(rowid, name): the newest poslist of a
\* (term, rowid) pair replaces an older one.
FtsInsert(tri, rowid, name) ==
    {x \in tri : ~(x[1] = rowid /\ x[2] \in TrigramTerms(name))}
        \cup {<<rowid, t[1], t[2]>> : t \in TrigramTokens(name)}

\* INSERT INTO file_name_index(file_name_index, rowid, name) VALUES('delete',..)
FtsDelete(tri, rowid, name) ==
    {x \in tri : ~(x[1] = rowid /\ x[2] \in TrigramTerms(name))}

RECURSIVE FtsDeleteAll(_, _)
FtsDeleteAll(tri, rows) ==
    IF rows = {} THEN tri
    ELSE LET e == CHOOSE r \in rows : TRUE
         IN  FtsDeleteAll(FtsDelete(tri, e.id, e.name), rows \ {e})

RECURSIVE FtsInsertAll(_, _)
FtsInsertAll(tri, rows) ==
    IF rows = {} THEN tri
    ELSE LET e == CHOOSE r \in rows : TRUE
         IN  FtsInsertAll(FtsInsert(tri, e.id, e.name), rows \ {e})

\* A plain INSERT on a table without the UNIQUE constraint on path.
insert_keep_old(db, f) ==
    LET id == NewRowId(db.md)
    IN  [db EXCEPT
           !.md  = db.md \cup {MkRow(id, f)},
           !.tri = IF db.tt THEN FtsInsert(db.tri, id, f.name) ELSE db.tri]

\* INSERT OR REPLACE INTO file_metadata: the row holding the same path is
\* deleted by conflict resolution (its delete trigger does not run, since
\* recursive_triggers is off) and the new row is inserted under a new rowid;
\* trigger file_metadata_ai_trigram indexes the new row.
insert_or_replace(db, f) ==
    LET id == NewRowId(db.md)
    IN  [db EXCEPT
           !.md  = {e \in db.md : e.path # f.path} \cup {MkRow(id, f)},
           !.tri = IF db.tt THEN FtsInsert(db.tri, id, f.name) ELSE db.tri]

add_file(db, f) == insert_or_replace(db, f)

RECURSIVE executemany_insert(_, _)
executemany_insert(db, files) ==
    IF files = << >> THEN db
    ELSE executemany_insert(insert_or_replace(db, Head(files)), Tail(files))

batch_add_files(db, files) ==
    IF files = << >> THEN db ELSE executemany_insert(db, files)

\* UPDATE file_metadata SET <column> = ? WHERE path = ?, with trigger
\* file_metadata_au_trigram (delete old, insert new).
update_file(db, path, column, value) ==
    LET old == {e \in db.md : e.path = path}
        new == {[e EXCEPT ![column] = value] : e \in old}
    IN  [db EXCEPT
           !.md  = (db.md \ old) \cup new,
           !.tri = IF db.tt THEN FtsInsertAll(FtsDeleteAll(db.tri, old), new)
                   ELSE db.tri]

\* DELETE FROM file_metadata WHERE <rows>, with trigger file_metadata_ad_trigram.
\* file_name_bigrams rows stay: foreign keys are not enforced on the connection.
delete_rows(db, rows) ==
    [db EXCEPT
       !.md  = db.md \ rows,
       !.tri = IF db.tt THEN FtsDeleteAll(db.tri, rows) ELSE db.tri]

remove_file(db, path) == delete_rows(db, {e \in db.md : e.path = path})

\* The rows remove_path deletes: path LIKE 'root%' OR parent_path LIKE 'root%'.
RemovePathRows(md, path) ==
    {e \in md : \/ LikeMatch(path \o <<"%">>, e.path)
                \/ LikeMatch(path \o <<"%">>, e.parent_path)}

\* A function without the key k.
WithoutKey(f, k) == [x \in (DOMAIN f) \ {k} |-> f[x]]

\* remove_path deleting only the rows whose parent_path is the root itself.
remove_path_children_only(db, path) ==
    [delete_rows(db, {e \in db.md : e.parent_path = path}) EXCEPT
       !.wp = WithoutKey(db.wp, path)]

remove_path(db, path) ==
    [delete_rows(db, RemovePathRows(db.md, path)) EXCEPT
       !.wp = WithoutKey(db.wp, path)]

\* [name[i : i + 2] for i in range(len(name) - 1)]
extract_bigrams(name) ==
    IF Len(name) < 2 THEN << >>
    ELSE [i \in 1..(Len(name) - 1) |-> SubSeq(name, i, i + 1)]

SeqToSet(s) == {s[i] : i \in 1..Len(s)}

\* list(set(bigrams))
unique_bigrams(name) == SeqToSet(extract_bigrams(name))

\* DELETE FROM file_name_bigrams, then one row per entry and unique bigram.
rebuild_bigram_index(db) ==
    [db EXCEPT !.bi =
        SetToBag(UNION {{<<e.id, bg>> : bg \in unique_bigrams(e.name)} : e \in db.md})]

\* sqlite_master holds file_name_index exactly when init_db created it.
has_trigram_index(db) == db.tt

\* DELETE FROM file_name_index removes, for every row of the content table, the
\* tokens of its current name; tokens under rowids or terms the content table no
\* longer has are left.  Then every row is indexed again.
rebuild_trigram_index(db) ==
    IF ~has_trigram_index(db) THEN db
    ELSE [db EXCEPT !.tri = FtsInsertAll(FtsDeleteAll(db.tri, db.md), db.md)]

\* register_path written with INSERT OR REPLACE: a registered root gets a new
\* row.
register_path_replace(db, path) ==
    [db EXCEPT !.wp = [w \in (DOMAIN db.wp) \cup {path} |->
        IF w = path
        THEN [status |-> "idle", enabled |-> 1, total_files |-> 0,
              indexed_files |-> 0, error_message |-> "None"]
        ELSE db.wp[w]]]

\* INSERT OR IGNORE INTO watch_paths (path, last_updated): a new row takes the
\* column defaults.
register_path(db, path) ==
    IF path \in DOMAIN db.wp THEN db
    ELSE [db EXCEPT !.wp = db.wp @@ (path :>
            [status |-> "idle", enabled |-> 1, total_files |-> 0,
             indexed_files |-> 0, error_message |-> "None"])]

update_path_status(db, path, status) ==
    IF path \in DOMAIN db.wp
    THEN [db EXCEPT !.wp[path].status = status]
    ELSE db

update_path_stats(db, path, total_files, indexed_files) ==
    IF path \in DOMAIN db.wp
    THEN [db EXCEPT !.wp[path].total_files = total_files,
                    !.wp[path].indexed_files = indexed_files]
    ELSE db

-----------------------------------------------------------------------------
(* The crawler's hand-over to the store (ParallelScanner).                   *)

\* What is on disk under the crawled root P_r: a file and a directory right
\* below it, and a file and an empty directory inside that directory.
DiskPaths == {P_aab, P_d, P_a_b, P_e}

\* item in path.iterdir(), in a fixed listing order.
ChildrenOf(dir) == {p \in DiskPaths : PathParent(p) = dir}

\* A set of paths as a list in code-point order (the order of a listing).
RECURSIVE SortedPaths(_)
SortedPaths(S) ==
    IF S = {} THEN << >>
    ELSE LET m == CHOOSE p \in S : \A q \in S : q = p \/ StrLess(p, q)
         IN  <<m>> \o SortedPaths(S \ {m})

\* _scan_recursive_sync: the records of everything below dir, depth first.
RECURSIVE scan_recursive_sync(_)
RECURSIVE ScanItems(_)
ScanItems(items) ==
    IF items = << >> THEN << >>
    ELSE LET item == Head(items)
         IN  <<MkFileInfo(item, FirstSize)>>
               \o (IF item \in Directories THEN scan_recursive_sync(item) ELSE << >>)
               \o ScanItems(Tail(items))
scan_recursive_sync(dir) == ScanItems(SortedPaths(ChildrenOf(dir)))

\* The subdirectories of the root, whose subtrees the workers scan.
Subdirs(root) == {p \in ChildrenOf(root) : p \in Directories}

\* scan_directory's on_batch calls: the workers' results are appended to batch
\* in completion order and cut into slices of batch_size; the rest is handed
\* over at the end.  The root's direct children go to all_results only.
RECURSIVE SplitBatches(_, _)
SplitBatches(batch, size) ==
    IF batch = << >> THEN << >>
    ELSE IF Len(batch) >= size
         THEN <<SubSeq(batch, 1, size)>> \o SplitBatches(Drop(batch, size), size)
         ELSE <<batch>>

RECURSIVE ConcatScans(_)
ConcatScans(subdirs) ==
    IF subdirs = << >> THEN << >>
    ELSE scan_recursive_sync(Head(subdirs)) \o ConcatScans(Tail(subdirs))

scan_directory_batches(root, order) == SplitBatches(ConcatScans(order), BatchSize)

RECURSIVE ApplyBatches(_, _)
ApplyBatches(db, batches) ==
    IF batches = << >> THEN db
    ELSE ApplyBatches(batch_add_files(db, Head(batches)), Tail(batches))

\* scan_with_index_service: every batch goes to batch_add_files.
scan_with_index_service(db, root, order) ==
    ApplyBatches(db, scan_directory_batches(root, order))

RECURSIVE SumLen(_)
SumLen(batches) ==
    IF batches = << >> THEN 0 ELSE Len(Head(batches)) + SumLen(Tail(batches))

\* total_count, the value scan_with_index_service returns.
scan_total_count(root, order) == SumLen(scan_directory_batches(root, order))

\* The orders in which the subdirectory futures can complete.
Orderings(S) ==
    {s \in [1..Cardinality(S) -> S] : \A i, j \in 1..Cardinality(S) : s[i] = s[j] => i = j}

-----------------------------------------------------------------------------
(* The store's operations as steps of the system. *)

NoResp == [op |-> "none"]

Commit(db, op) ==
    /\ file_metadata' = db.md
    /\ file_name_index' = db.tri
    /\ file_name_bigrams' = db.bi
    /\ watch_paths' = db.wp
    /\ trigram_table' = db.tt
    /\ nops < MaxOps
    /\ lastOp' = op
    /\ nops' = nops + 1
    /\ resp' = NoResp
    /\ UNCHANGED <<coordVars, auxVars>>

\* Paths and records the store-level steps draw their arguments from.
StorePaths == {P_aab, P_a_b}
StoreRoots == {P_r}

AddFile ==
    \E f \in FileInfosOf(StorePaths) :
        /\ Commit(add_file(DB, f), [op |-> "add_file", path |-> f.path])

BatchAddFiles ==
    \E f \in FileInfosOf(StorePaths), g \in FileInfosOf(StorePaths) :
        /\ Commit(batch_add_files(DB, <<f, g>>),
                  [op |-> "batch_add_files", path |-> g.path, first |-> f.path])

UpdateFile ==
    \E p \in StorePaths, s \in FileSizes :
        Commit(update_file(DB, p, "size", s), [op |-> "update_file", path |-> p])

RemoveFile ==
    \E p \in StorePaths :
        Commit(remove_file(DB, p), [op |-> "remove_file", path |-> p])

RemovePath ==
    \E p \in StoreRoots :
        Commit(remove_path(DB, p),
               [op |-> "remove_path", path |-> p,
                had_root |-> p \in DOMAIN watch_paths,
                removed |-> Cardinality({e \in file_metadata : IsRelativeTo(e.path, p)})])

RegisterPath ==
    \E p \in StoreRoots :
        Commit(register_path(DB, p), [op |-> "register_path", path |-> p])

RebuildTrigram ==
    Commit(rebuild_trigram_index(DB), [op |-> "rebuild_trigram_index", path |-> << >>])

RebuildBigram ==
    Commit(rebuild_bigram_index(DB), [op |-> "rebuild_bigram_index", path |-> << >>])

Crawl ==
    \E root \in StoreRoots : \E order \in Orderings(Subdirs(root)) :
        /\ Commit(scan_with_index_service(DB, root, order),
                  [op |-> "crawl", path |-> root,
                   count |-> scan_total_count(root, order)])

\* The database right after init_db on a new file.
EmptyDB(tt) ==
    /\ file_metadata = {}
    /\ file_name_index = {}
    /\ file_name_bigrams = EmptyBag
    /\ watch_paths = << >>
    /\ trigram_table = tt

\* The coordinator at rest: no startup task, no background task.
CoordIdle ==
    /\ disk_ok = TRUE
    /\ tasks = << >>
    /\ startup = [pc |-> "off", scan |-> FALSE]

\* No FileWatcher object yet (_file_watcher is None).
NoWatcher == [running |-> FALSE, scheduled |-> {}]

\* The disk holds the files of the model's world and no watcher exists.
WorldIdle ==
    /\ disk = DiskPaths
    /\ watcher = NoWatcher

\* No ignore pattern registered, no watcher event pending, the store's lock
\* free and no thread holding a connection.
AuxIdle ==
    /\ ignore_patterns = << >>
    /\ pending_events = << >>
    /\ lock = "free"
    /\ conn = << >>
    /\ WorldIdle

Init ==
    /\ \E tt \in BOOLEAN : EmptyDB(tt)
    /\ lastOp = [op |-> "init_db", path |-> << >>]
    /\ nops = 0
    /\ resp = NoResp
    /\ CoordIdle
    /\ AuxIdle

Next ==
    \/ AddFile
    \/ BatchAddFiles
    \/ UpdateFile
    \/ RemoveFile
    \/ RemovePath
    \/ RegisterPath
    \/ RebuildTrigram
    \/ RebuildBigram
    \/ Crawl

Spec == Init /\ [][Next]_vars

-----------------------------------------------------------------------------
(* The query engine: IndexService.search. *)

\* file_name_index MATCH '"query"': the rowids under which the trigrams of the
\* query occur at consecutive positions.
FtsMatch(tri, rowid, query) ==
    /\ Len(query) >= 3
    /\ \E x \in tri :
          /\ x[1] = rowid
          /\ \A i \in 1..(Len(query) - 2) :
                <<rowid, LowerS(SubSeq(query, i, i + 2)), x[3] + i - 1>> \in tri

\* search_strategy without its bigram branch.
search_strategy_no_bigram(db, query) ==
    IF query # << >>
    THEN IF db.tt /\ Len(query) >= 3 THEN "trigram" ELSE "like"
    ELSE "all"

\* The branch of search that looks the query up.
search_strategy(db, query) ==
    IF query # << >>
    THEN IF has_trigram_index(db) /\ Len(query) >= 3 THEN "trigram"
         ELSE IF Len(query) = 2 THEN "bigram"
         ELSE "like"
    ELSE "all"

\* The rows the chosen statement selects before the filters.
strategy_rows(db, query) ==
    LET st == search_strategy(db, query)
    IN  CASE st = "trigram" -> {m \in db.md : FtsMatch(db.tri, m.id, query)}
          [] st = "bigram"  -> {m \in db.md : <<m.id, query>> \in BagToSet(db.bi)}
          [] st = "like"    -> {m \in db.md : LikeMatch(<<"%">> \o query \o <<"%">>, m.name)}
          [] st = "all"     -> db.md

\* AND path LIKE 'path_filter%' AND type = type_filter, each only when given.
where_rows(db, req) ==
    {m \in strategy_rows(db, req.query) :
        /\ (req.path_filter # << >>) => LikeMatch(req.path_filter \o <<"%">>, m.path)
        /\ (req.type_filter \notin {"None", "all"}) => m.type = req.type_filter}

sort_column(req) ==
    IF req.sort \in {"name", "path", "size", "mtime"} THEN req.sort ELSE "name"

\* a sorts strictly before b under ORDER BY column ASC.
KeyLess(a, b, column) ==
    IF column \in {"name", "path"} THEN StrLess(a[column], b[column])
    ELSE a[column] < b[column]

SortsBefore(a, b, req) ==
    IF req.ascending THEN KeyLess(a, b, sort_column(req))
    ELSE KeyLess(b, a, sort_column(req))

\* Every order ORDER BY may return the rows in: rows with equal keys come in
\* any order.
RECURSIVE OrderBy(_, _)
OrderBy(rows, req) ==
    IF rows = {} THEN {<< >>}
    ELSE UNION {{<<m>> \o t : t \in OrderBy(rows \ {m}, req)} :
                  m \in {x \in rows : \A y \in rows : ~SortsBefore(y, x, req)}}

\* The LIMIT the statement carries when a depth filter is asked for. The program
\* writes 100000; the model scales it to the size of its corpora, which hold
\* four to six entries where an index of a real volume holds more than 100000.
DepthFetchLimit == 4

limit_count(req) ==
    IF req.depth > 0 /\ req.path_filter # << >> THEN DepthFetchLimit
    ELSE req.max_results + req.offset

\* The loop over the fetched rows: depth filter, then offset, then append.
RECURSIVE result_loop(_, _, _, _)
result_loop(rows, results, skipped, req) ==
    IF rows = << >> \/ Len(results) >= req.max_results THEN results
    ELSE LET row == Head(rows)
             base_set == req.path_filter # << >> /\ req.depth > 0
         IN  IF base_set /\ (\/ ~IsRelativeTo(row.path, req.path_filter)
                             \/ RelativeDepth(row.path, req.path_filter) > req.depth)
             THEN result_loop(Tail(rows), results, skipped, req)
             ELSE IF skipped < req.offset
             THEN result_loop(Tail(rows), results, skipped + 1, req)
             ELSE result_loop(Tail(rows), Append(results, row), skipped, req)

\* search, given the order in which the statement returned its rows.
search(ordered, req) == result_loop(Take(ordered, limit_count(req)), << >>, 0, req)

\* A search request with every argument at its default.
DefaultRequest(query) ==
    [query |-> query, path_filter |-> << >>, type_filter |-> "None",
     max_results |-> 1000, depth |-> 0, offset |-> 0, sort |-> "name",
     ascending |-> TRUE]

\* The step: one call of search, made while no other call holds the lock; the
\* store is only read.
Search(req) ==
    \E ordered \in OrderBy(where_rows(DB, req), req) :
        /\ resp = NoResp
        /\ resp' = [op |-> "search", req |-> req,
                    strategy |-> search_strategy(DB, req.query),
                    ordered |-> ordered,
                    result |-> search(ordered, req)]
        /\ UNCHANGED <<storeVars, lastOp, nops, coordVars, auxVars>>

\* The step: search returns its list and releases the lock.
SearchReturn ==
    /\ resp # NoResp
    /\ resp' = NoResp
    /\ UNCHANGED <<storeVars, lastOp, nops, coordVars, auxVars>>

\* The database after the given records were inserted one by one into a new
\* database and both n-gram indexes were rebuilt.
RebuiltCorpus(files, tt) ==
    rebuild_bigram_index(rebuild_trigram_index(
        batch_add_files([md |-> {}, tri |-> {}, bi |-> EmptyBag, wp |-> << >>, tt |-> tt],
                        files)))

\* The size each path has in the corpora the searches run on.
SizeOf(p) ==
    CASE p = P_aab -> 1
      [] p = P_a_b -> 2
      [] p = P_aAb -> 3
      [] p = P_x   -> 3
      [] OTHER     -> 0

CorpusList(paths) == [i \in 1..Len(SortedPaths(paths)) |->
                        MkFileInfo(SortedPaths(paths)[i], SizeOf(SortedPaths(paths)[i]))]

InitCorpus(pathsets) ==
    /\ \E paths \in pathsets, tt \in BOOLEAN :
          LET db == RebuiltCorpus(CorpusList(paths), tt)
          IN  /\ file_metadata = db.md
              /\ file_name_index = db.tri
              /\ file_name_bigrams = db.bi
              /\ watch_paths = db.wp
              /\ trigram_table = db.tt
    /\ lastOp = [op |-> "rebuild_bigram_index", path |-> << >>]
    /\ nops = 0
    /\ resp = NoResp
    /\ CoordIdle
    /\ AuxIdle

\* Every substring of length n of the names of the model.
SubstringsOfLen(n) ==
    UNION {{SubSeq(PathName(p), i, i + n - 1) : i \in 1..(Len(PathName(p)) - n + 1)}
             : p \in AllPaths}

\* The queries of the query specification: the empty query and every substring
\* of one to three characters of a name.
Queries == {<< >>} \cup SubstringsOfLen(1) \cup SubstringsOfLen(2) \cup SubstringsOfLen(3)

QueryCorpora == SUBSET {P_aab, P_a_b, P_aAb, P_d}

InitQuery == InitCorpus(QueryCorpora)

SearchQuery == resp = NoResp /\ \E q \in Queries : Search(DefaultRequest(q))

NextQuery == SearchQuery \/ SearchReturn

SpecQuery == InitQuery /\ [][NextQuery]_vars

\* Searches on an index the watcher has written to since the last n-gram
\* rebuild: the store holds a rebuilt corpus, then entries are added and removed
\* one by one, the bigram index is rebuilt now and then, and 2-character
\* queries are searched.
SearchBigram ==
    \E query \in SubstringsOfLen(2) : Search(DefaultRequest(query))

InitStale == InitCorpus({{P_aab}, {P_aab, P_a_b}})

NextStale ==
    \/ AddFile
    \/ RemoveFile
    \/ RebuildBigram
    \/ SearchBigram
    \/ SearchReturn

SpecStale == InitStale /\ [][NextStale]_vars

\* The requests of the paging specification.
PageQueries == {<< >>, <<"a">>, <<"a", "b">>, <<"a", "a", "b">>}
PageRequests ==
    [query : PageQueries,
     path_filter : {<< >>, P_r, P_d},
     type_filter : {"None", "file"},
     max_results : 0..MaxResults,
     depth : 0..MaxDepth,
     offset : 0..MaxOffset,
     sort : {"name", "path", "size", "mtime"},
     ascending : BOOLEAN]

PageCorpora == {AllPaths, AllPaths \ {P_e}}

InitPage == InitCorpus(PageCorpora)

SearchPage == resp = NoResp /\ \E req \in PageRequests : Search(req)

NextPage == SearchPage \/ SearchReturn

SpecPage == InitPage /\ [][NextPage]_vars

-----------------------------------------------------------------------------
(* The coordinator: start_indexing, the admin handlers and their background
   tasks, all running on one event loop. A coroutine runs without interruption
   from one await to the next; pc values of MidSegment are positions between
   two store calls inside such a stretch. Every step is one store call (one
   commit), except where noted. startup is the start_indexing task, tasks the
   background tasks in the order the handlers queued them, and disk_ok says
   whether the root directory exists on disk. *)

\* The root the coordinator specification works on, and whether the settings
\* list it as a watch path.
Root == P_r

MidSegment == {"listed", "marked", "removed", "registered", "ready", "h_registered",
               "rebuilt"}

Procs == {0} \cup (1..Len(tasks))

Pc(p) == IF p = 0 THEN startup.pc ELSE tasks[p].pc

Kind(p) == IF p = 0 THEN "startup" ELSE tasks[p].kind

\* No coroutine is in the middle of a stretch: the event loop can pick any
\* ready coroutine.
LoopIdle == \A p \in Procs : Pc(p) \notin MidSegment

\* One step of process p: the store becomes db and p moves to pc.
CoordStep(p, db, pc) ==
    /\ file_metadata' = db.md
    /\ file_name_index' = db.tri
    /\ file_name_bigrams' = db.bi
    /\ watch_paths' = db.wp
    /\ trigram_table' = db.tt
    /\ IF p = 0
       THEN startup' = [startup EXCEPT !.pc = pc] /\ UNCHANGED tasks
       ELSE tasks' = [tasks EXCEPT ![p].pc = pc] /\ UNCHANGED startup
    /\ UNCHANGED <<disk_ok, lastOp, nops, resp, auxVars>>

\* COUNT(*) of the external-content table file_name_index is the row count of
\* its content table.
ensure_trigram_index_populated(db) ==
    LET trigram_count == Cardinality(db.md)
        metadata_count == Cardinality(db.md)
    IN  IF ~has_trigram_index(db) THEN db
        ELSE IF metadata_count > 0 /\ trigram_count = 0
        THEN rebuild_trigram_index(db) ELSE db

ensure_bigram_index_populated(db) ==
    IF Cardinality(db.md) > 0 /\ db.bi = EmptyBag
    THEN rebuild_bigram_index(db) ELSE db

\* is_path_indexed that looks for the path itself only.
is_path_indexed_exact(db, path) ==
    \E w \in DOMAIN db.wp : db.wp[w].enabled = 1 /\ path = w

is_path_indexed(db, path) ==
    \E w \in DOMAIN db.wp : db.wp[w].enabled = 1 /\ (path = w \/ IsRelativeTo(path, w))

\* start_indexing up to its loop: the store is opened, the configured roots
\* are registered and the watch paths are read (several store calls, of which
\* only register_path writes).
StartupRegister ==
    /\ startup.pc = "begin"
    /\ LET db0 == ensure_bigram_index_populated(ensure_trigram_index_populated(DB))
           db == IF startup.scan THEN register_path(db0, Root) ELSE db0
           idle == Root \in DOMAIN db.wp /\ db.wp[Root].status = "idle"
       IN  /\ CoordStep(0, db, IF idle THEN "listed" ELSE "tri")

\* start_indexing: update_path_status(path, "scanning") for an idle root.
MarkScanning ==
    /\ startup.pc = "listed"
    /\ CoordStep(0, update_path_status(DB, Root, "scanning"), "marked")

\* start_indexing and _rebuild_path: remove_path(path).
RemoveOld(p) ==
    /\ \/ Kind(p) = "startup" /\ Pc(p) = "marked"
       \/ Kind(p) = "rebuild" /\ Pc(p) = "queued" /\ LoopIdle
    /\ CoordStep(p, remove_path(DB, Root), "removed")

\* start_indexing and _rebuild_path: register_path(path).
ReRegister(p) ==
    /\ Pc(p) = "removed"
    /\ CoordStep(p, register_path(DB, Root), "registered")

\* start_indexing and _rebuild_path: update_path_status(path, "scanning").
MarkScanningAgain(p) ==
    /\ Pc(p) = "registered"
    /\ CoordStep(p, update_path_status(DB, Root, "scanning"), "ready")

\* The except branch of _scan_path and _rebuild_path: the status and then the
\* message of the exception, in two commits of which the first changes the
\* status.
record_error(db, path, message) ==
    LET db1 == update_path_status(db, path, "error")
    IN  IF path \in DOMAIN db1.wp
        THEN [db1 EXCEPT !.wp[path].error_message = message]
        ELSE db1

\* scan_with_index_service up to its first await: scan_directory raises when
\* the root is missing, and the caller's handler records the error.
CrawlBegin(p) ==
    /\ \/ Kind(p) \in {"startup", "rebuild"} /\ Pc(p) = "ready"
       \/ Kind(p) = "scan" /\ Pc(p) = "queued" /\ LoopIdle
    /\ IF disk_ok
       THEN CoordStep(p, DB, "crawling")
       ELSE IF Kind(p) = "startup"
       THEN CoordStep(p, update_path_status(DB, Root, "error"), "tri")
       ELSE CoordStep(p, record_error(DB, Root, "Directory not found"), "failed")

\* The rest of the crawl and what follows it up to the next await: the batches
\* are inserted, then update_path_stats and update_path_status("watching").
\* Workers that find the root gone return nothing.
CrawlEnd(p) ==
    /\ Pc(p) = "crawling"
    /\ LoopIdle
    /\ \E order \in Orderings(Subdirs(Root)) :
          LET db1 == IF disk_ok THEN scan_with_index_service(DB, Root, order) ELSE DB
              n == IF disk_ok THEN scan_total_count(Root, order) ELSE 0
              db2 == update_path_stats(db1, Root, n, n)
          IN  CoordStep(p, update_path_status(db2, Root, "watching"), "tri")

\* rebuild_trigram_index in the executor thread.
CoordRebuildTrigram(p) ==
    /\ Pc(p) = "tri"
    /\ CoordStep(p, rebuild_trigram_index(DB), "bi")

\* rebuild_bigram_index in the executor thread; start_indexing then goes on to
\* start the watcher.
CoordRebuildBigram(p) ==
    /\ Pc(p) = "bi"
    /\ CoordStep(p, rebuild_bigram_index(DB), IF p = 0 THEN "rebuilt" ELSE "done")

\* A start_indexing that starts the watcher before the n-gram rebuilds.
StartWatcherEarly ==
    /\ startup.pc = "tri"
    /\ startup' = [startup EXCEPT !.pc = "started"]
    /\ watcher' = IF DOMAIN watch_paths = {} THEN watcher
                  ELSE [running |-> TRUE,
                        scheduled |-> {w \in DOMAIN watch_paths : disk_ok}]
    /\ UNCHANGED <<storeVars, tasks, disk_ok, lastOp, nops, resp, ignore_patterns,
                   pending_events, lock, conn, disk>>

\* The end of start_indexing: when the registry holds a root, a FileWatcher is
\* made and started; start schedules a recursive watch for every root that is
\* a directory on disk.
StartWatcher ==
    /\ startup.pc = "rebuilt"
    /\ startup' = [startup EXCEPT !.pc = "started"]
    /\ watcher' = IF DOMAIN watch_paths = {} THEN watcher
                  ELSE [running |-> TRUE,
                        scheduled |-> {w \in DOMAIN watch_paths : disk_ok}]
    /\ UNCHANGED <<storeVars, tasks, disk_ok, lastOp, nops, resp, ignore_patterns,
                   pending_events, lock, conn, disk>>

\* A handler queues a background task.
Queue(db, task) ==
    /\ file_metadata' = db.md
    /\ file_name_index' = db.tri
    /\ file_name_bigrams' = db.bi
    /\ watch_paths' = db.wp
    /\ trigram_table' = db.tt
    /\ tasks' = Append(tasks, task)
    /\ UNCHANGED <<startup, disk_ok, lastOp, nops, resp, auxVars>>

HandlerReady ==
    /\ LoopIdle
    /\ startup.pc \notin {"off", "begin"}
    /\ Len(tasks) < MaxRequests

\* POST /paths for the root, up to register_path.
AddPathRegister ==
    /\ HandlerReady
    /\ disk_ok
    /\ ~is_path_indexed(DB, Root)
    /\ Queue(register_path(DB, Root), [kind |-> "scan", pc |-> "h_registered"])

\* POST /paths: update_path_status(path, "scanning") and add_task(_scan_path).
AddPathMarkScanning(p) ==
    /\ Pc(p) = "h_registered"
    /\ CoordStep(p, update_path_status(DB, Root, "scanning"), "queued")

\* POST /rebuild: update_path_status(path, "scanning") and
\* add_task(_rebuild_path) for the registered root.
RebuildIndex ==
    /\ HandlerReady
    /\ Root \in DOMAIN watch_paths
    /\ Queue(update_path_status(DB, Root, "scanning"), [kind |-> "rebuild", pc |-> "queued"])

\* The root directory disappears from the disk or comes back.
DiskChanges ==
    /\ startup.pc # "off"
    /\ disk_ok' = ~disk_ok
    /\ UNCHANGED <<storeVars, lastOp, nops, resp, tasks, startup, auxVars>>

\* The store a previous run of the service left behind: the root crawled and
\* watching, both n-gram indexes rebuilt.
AfterEarlierRun(tt, order) ==
    LET db0 == [md |-> {}, tri |-> {}, bi |-> EmptyBag, wp |-> << >>, tt |-> tt]
        db1 == update_path_status(register_path(db0, Root), Root, "scanning")
        db2 == scan_with_index_service(db1, Root, order)
        n == scan_total_count(Root, order)
        db3 == update_path_status(update_path_stats(db2, Root, n, n), Root, "watching")
    IN  rebuild_bigram_index(rebuild_trigram_index(db3))

\* The service starts on a new database or on the one an earlier run left, with
\* the root in its settings or not.
InitCoord ==
    /\ \E tt \in BOOLEAN :
          \/ EmptyDB(tt)
          \/ \E order \in Orderings(Subdirs(Root)) :
                LET db == AfterEarlierRun(tt, order)
                IN  /\ file_metadata = db.md
                    /\ file_name_index = db.tri
                    /\ file_name_bigrams = db.bi
                    /\ watch_paths = db.wp
                    /\ trigram_table = db.tt
    /\ lastOp = [op |-> "init_db", path |-> << >>]
    /\ nops = 0
    /\ resp = NoResp
    /\ disk_ok = TRUE
    /\ tasks = << >>
    /\ \E configured \in BOOLEAN : startup = [pc |-> "begin", scan |-> configured]
    /\ AuxIdle

NextCoord ==
    \/ StartupRegister
    \/ MarkScanning
    \/ \E p \in Procs : RemoveOld(p)
    \/ \E p \in Procs : ReRegister(p)
    \/ \E p \in Procs : MarkScanningAgain(p)
    \/ \E p \in Procs : CrawlBegin(p)
    \/ \E p \in Procs : CrawlEnd(p)
    \/ \E p \in Procs : CoordRebuildTrigram(p)
    \/ \E p \in Procs : CoordRebuildBigram(p)
    \/ StartWatcher
    \/ AddPathRegister
    \/ \E p \in Procs : AddPathMarkScanning(p)
    \/ RebuildIndex
    \/ DiskChanges

SpecCoord == InitCoord /\ [][NextCoord]_vars

\* The store a run left behind that stopped in the middle of its crawl: the
\* root marked scanning and the first batch inserted.
InterruptedRun(tt, order) ==
    LET db0 == [md |-> {}, tri |-> {}, bi |-> EmptyBag, wp |-> << >>, tt |-> tt]
        db1 == update_path_status(register_path(db0, Root), Root, "scanning")
    IN  batch_add_files(db1, Head(scan_directory_batches(Root, order)))

\* The service starts on the database of an interrupted run, of a finished run
\* or on a new one.
InitRestart ==
    /\ \E tt \in BOOLEAN :
          \/ EmptyDB(tt)
          \/ \E order \in Orderings(Subdirs(Root)) :
             \E db \in {AfterEarlierRun(tt, order), InterruptedRun(tt, order)} :
                /\ file_metadata = db.md
                /\ file_name_index = db.tri
                /\ file_name_bigrams = db.bi
                /\ watch_paths = db.wp
                /\ trigram_table = db.tt
    /\ lastOp = [op |-> "init_db", path |-> << >>]
    /\ nops = 0
    /\ resp = NoResp
    /\ disk_ok = TRUE
    /\ tasks = << >>
    /\ \E configured \in BOOLEAN : startup = [pc |-> "begin", scan |-> configured]
    /\ AuxIdle

\* The steps of start_indexing that are calls it makes itself, on the event
\* loop or in the executor.
StartupCalls ==
    \/ StartupRegister
    \/ MarkScanning
    \/ RemoveOld(0)
    \/ ReRegister(0)
    \/ MarkScanningAgain(0)
    \/ CrawlBegin(0)
    \/ CoordRebuildTrigram(0)
    \/ CoordRebuildBigram(0)
    \/ StartWatcher

\* start_indexing from its first store call to the start of the watcher.
start_indexing ==
    \/ StartupCalls
    \/ CrawlEnd(0)

NextRestart ==
    \/ start_indexing
    \/ DiskChanges

\* The event loop runs start_indexing whenever it is ready and a crawl that
\* has begun returns; no request comes in, and the disk changes when it
\* changes.
SpecRestart ==
    /\ InitRestart
    /\ [][NextRestart]_vars
    /\ WF_vars(StartupCalls)
    /\ []<>(startup.pc # "crawling")

-----------------------------------------------------------------------------
(* The watch-root registry as the admin interface sees it: GET /status and
   POST /paths, over a registry that register_path, update_path_status and
   remove_path have brought into any shape. *)

RECURSIVE SumColumn(_, _, _)
SumColumn(wp, paths, column) ==
    IF paths = {} THEN 0
    ELSE LET w == CHOOSE x \in paths : TRUE
         IN  wp[w][column] + SumColumn(wp, paths \ {w}, column)

\* get_status whose ready looks for a watching root only.
get_status_any_watching(db) ==
    [ready |-> \E w \in DOMAIN db.wp : db.wp[w].status = "watching",
     paths |-> db.wp,
     total_files |-> SumColumn(db.wp, DOMAIN db.wp, "total_files"),
     indexed_files |-> SumColumn(db.wp, DOMAIN db.wp, "indexed_files")]

get_status(db) ==
    [ready |-> /\ Cardinality(DOMAIN db.wp) > 0
               /\ ~(\E w \in DOMAIN db.wp : db.wp[w].status = "scanning")
               /\ \E w \in DOMAIN db.wp : db.wp[w].status = "watching",
     paths |-> db.wp,
     total_files |-> SumColumn(db.wp, DOMAIN db.wp, "total_files"),
     indexed_files |-> SumColumn(db.wp, DOMAIN db.wp, "indexed_files")]

\* The roots the registry specification registers and the paths it asks
\* POST /paths to add: a root, a directory below it, and a sibling whose path
\* has the root's as a string prefix.
RegistryRoots == {P_r, P_rx}
AddPathRequests == {P_r, P_d, P_rx}

\* One step of the registry specification.
RegistryStep(db, newTasks, newResp) ==
    /\ file_metadata' = db.md
    /\ file_name_index' = db.tri
    /\ file_name_bigrams' = db.bi
    /\ watch_paths' = db.wp
    /\ trigram_table' = db.tt
    /\ tasks' = newTasks
    /\ resp' = newResp
    /\ UNCHANGED <<startup, disk_ok, lastOp, nops, auxVars>>

RegRegisterPath ==
    \E path \in RegistryRoots : RegistryStep(register_path(DB, path), tasks, NoResp)

RegUpdatePathStatus ==
    \E path \in RegistryRoots, status \in {"idle", "scanning", "watching", "error"} :
        RegistryStep(update_path_status(DB, path, status), tasks, NoResp)

RegUpdatePathStats ==
    \E path \in RegistryRoots, n \in 0..1 :
        RegistryStep(update_path_stats(DB, path, n, n), tasks, NoResp)

RegRemovePath ==
    \E path \in RegistryRoots : RegistryStep(remove_path(DB, path), tasks, NoResp)

\* GET /status.
GetStatus ==
    RegistryStep(DB, tasks, [op |-> "get_status", status |-> get_status(DB)])

\* POST /paths, the whole handler: validation, the covering test, and for a new
\* root register_path, update_path_status and add_task.
AddPath ==
    \E path \in AddPathRequests :
        IF ~disk_ok
        THEN RegistryStep(DB, tasks, [op |-> "add_path", path |-> path, status |-> "404"])
        ELSE IF is_path_indexed(DB, path)
        THEN RegistryStep(DB, tasks,
                          [op |-> "add_path", path |-> path, status |-> "already_indexed"])
        ELSE /\ Len(tasks) < MaxRequests
             /\ RegistryStep(update_path_status(register_path(DB, path), path, "scanning"),
                             Append(tasks, [kind |-> "scan", pc |-> "queued"]),
                             [op |-> "add_path", path |-> path, status |-> "scanning"])

\* The requested directory disappears from the disk or comes back.
RegDiskChanges ==
    /\ disk_ok' = ~disk_ok
    /\ UNCHANGED <<storeVars, lastOp, nops, resp, tasks, startup, auxVars>>

InitRegistry ==
    /\ \E tt \in BOOLEAN : EmptyDB(tt)
    /\ lastOp = [op |-> "init_db", path |-> << >>]
    /\ nops = 0
    /\ resp = NoResp
    /\ CoordIdle
    /\ AuxIdle

NextRegistry ==
    \/ RegRegisterPath
    \/ RegUpdatePathStatus
    \/ RegUpdatePathStats
    \/ RegRemovePath
    \/ GetStatus
    \/ AddPath
    \/ RegDiskChanges

SpecRegistry == InitRegistry /\ [][NextRegistry]_vars

-----------------------------------------------------------------------------
(* The ignore patterns: the table ignore_patterns of the store, the store's  *)
(* is_ignored predicate that the watcher consults, and the crawler's own     *)
(* _should_ignore.                                                           *)

\* The patterns a client registers: a directory name, a filename glob, a
\* fragment of a name, a glob over the full path, and a one-character glob.
Pat_d == <<"d">>
Pat_aStar == <<"a", "*">>
Pat_aa == <<"a", "a">>
Pat_rdStar == <<"/", "r", "/", "d", "*">>
Pat_q == <<"?">>
IgnorePatterns == {Pat_d, Pat_aStar, Pat_aa, Pat_rdStar, Pat_q}

\* fnmatch.fnmatch on POSIX: "*" matches any run of characters (separators
\* included), "?" any one character, anything else itself.
RECURSIVE fnmatch(_, _)
fnmatch(name, pat) ==
    IF pat = << >> THEN name = << >>
    ELSE IF Head(pat) = "*"
         THEN \E k \in 0..Len(name) : fnmatch(Drop(name, k), Tail(pat))
    ELSE IF name = << >> THEN FALSE
    ELSE (Head(pat) = "?" \/ Head(pat) = Head(name))
           /\ fnmatch(Tail(name), Tail(pat))

\* Path(path).parts of an absolute path: the anchor "/" and then the names.
parts(path) == << <<"/">> >> \o PathParts(path)

\* A list of strings in code-point order, duplicates kept (ORDER BY).
RECURSIVE SortedSeq(_)
SortedSeq(s) ==
    IF s = << >> THEN << >>
    ELSE LET i == CHOOSE i \in 1..Len(s) :
                     \A j \in 1..Len(s) : s[j] = s[i] \/ StrLess(s[i], s[j])
         IN  <<s[i]>> \o SortedSeq(SubSeq(s, 1, i - 1) \o SubSeq(s, i + 1, Len(s)))

\* get_ignore_patterns: SELECT pattern FROM ignore_patterns ORDER BY pattern.
\* The table is the list of its rows' patterns in insertion order.
get_ignore_patterns(tbl) == SortedSeq(tbl)

\* A plain INSERT that the UNIQUE constraint did not stop.
add_ignore_pattern_plain(tbl, pattern) == Append(tbl, pattern)

\* add_ignore_pattern: INSERT OR IGNORE on the UNIQUE column pattern.
add_ignore_pattern(tbl, pattern) ==
    IF \E i \in 1..Len(tbl) : tbl[i] = pattern THEN tbl ELSE Append(tbl, pattern)

\* remove_ignore_pattern: DELETE ... WHERE pattern = ?.
remove_ignore_pattern(tbl, pattern) == SelectSeq(tbl, LAMBDA x : x # pattern)

\* is_ignored: a glob match of the full path, or, for a pattern without "/"
\* (the model's paths have no backslash), a glob match of one of the parts.
is_ignored(tbl, path) ==
    LET patterns == get_ignore_patterns(tbl)
    IN  IF patterns = << >> THEN FALSE
        ELSE \E i \in 1..Len(patterns) :
                LET pattern == patterns[i]
                IN  \/ fnmatch(path, pattern)
                    \/ /\ ~(\E j \in 1..Len(pattern) : pattern[j] = "/")
                       /\ \E j \in 1..Len(parts(path)) :
                             fnmatch(parts(path)[j], pattern)

\* ParallelScanner._should_ignore: the final name matches the pattern as a
\* glob or equals it, or the pattern occurs in the full path string.
_should_ignore(patterns, path) ==
    \E pattern \in patterns :
        /\ pattern # << >>
        /\ \/ fnmatch(PathName(path), pattern)
           \/ PathName(path) = pattern
           \/ IsSubstr(pattern, path)

\* The paths a crawl of dir records: every listed item that _should_ignore
\* lets through, and below the directories among them the same again.
RECURSIVE scanned_paths(_, _)
scanned_paths(patterns, dir) ==
    UNION {{item} \cup (IF item \in Directories
                        THEN scanned_paths(patterns, item) ELSE {})
           : item \in {c \in ChildrenOf(dir) : ~_should_ignore(patterns, c)}}

IgnoreStep(tbl, newResp) ==
    /\ ignore_patterns' = tbl
    /\ resp' = newResp
    /\ UNCHANGED <<storeVars, lastOp, nops, coordVars, pending_events, lock, conn, worldVars>>

AddIgnorePattern ==
    \E pattern \in IgnorePatterns :
        IgnoreStep(add_ignore_pattern(ignore_patterns, pattern),
                   [op |-> "add_ignore_pattern", pattern |-> pattern,
                    before |-> ignore_patterns])

RemoveIgnorePattern ==
    \E pattern \in IgnorePatterns :
        IgnoreStep(remove_ignore_pattern(ignore_patterns, pattern),
                   [op |-> "remove_ignore_pattern", pattern |-> pattern,
                    before |-> ignore_patterns])

GetIgnorePatterns ==
    IgnoreStep(ignore_patterns,
               [op |-> "get_ignore_patterns",
                patterns |-> get_ignore_patterns(ignore_patterns)])

IsIgnored ==
    \E path \in AllPaths :
        IgnoreStep(ignore_patterns,
                   [op |-> "is_ignored", path |-> path,
                    ignored |-> is_ignored(ignore_patterns, path)])

\* A crawl of the root by a scanner that was given the registered patterns
\* (main.py and admin.py pass get_ignore_patterns() joined with the settings).
ScanWithPatterns ==
    IgnoreStep(ignore_patterns,
               [op |-> "scan", path |-> Root,
                scanned |-> scanned_paths(
                    SeqToSet(get_ignore_patterns(ignore_patterns)), Root)])

InitIgnore ==
    /\ \E tt \in BOOLEAN : EmptyDB(tt)
    /\ lastOp = [op |-> "init_db", path |-> << >>]
    /\ nops = 0
    /\ resp = NoResp
    /\ CoordIdle
    /\ AuxIdle

NextIgnore ==
    \/ AddIgnorePattern
    \/ RemoveIgnorePattern
    \/ GetIgnorePatterns
    \/ IsIgnored
    \/ ScanWithPatterns

SpecIgnore == InitIgnore /\ [][NextIgnore]_vars

-----------------------------------------------------------------------------
(* The watcher: IndexEventHandler queues the file system events it is told   *)
(* of in _pending_events and applies them to the store when the debounce     *)
(* timer fires or flush is called.                                           *)

\* The paths the observer reports events for: a file and a directory on disk.
EventPaths == {P_aab, P_d}

\* The dict _pending_events as the list of its items in insertion order.
\* self._pending_events[path] = (event_type, is_directory, time.time()) with
\* every item of that path left in place.
queue_event_keep(pending, event_type, path, is_directory) ==
    Append(pending, [path |-> path, event_type |-> event_type,
                     is_directory |-> is_directory])

\* self._pending_events[path] = (event_type, is_directory, time.time()): the
\* item of a path that is already a key is overwritten where it stands.
queue_event(pending, event_type, path, is_directory) ==
    LET item == [path |-> path, event_type |-> event_type,
                 is_directory |-> is_directory]
    IN  IF \E i \in 1..Len(pending) : pending[i].path = path
        THEN [i \in 1..Len(pending) |->
                 IF pending[i].path = path THEN item ELSE pending[i]]
        ELSE Append(pending, item)

\* _apply_event that stores the stat's size and the suffix for a directory too.
apply_event_stat(db, ev, present) ==
    IF ev.event_type = "deleted" THEN remove_file(db, ev.path)
    ELSE IF ev.event_type \in {"created", "modified"}
         THEN IF ev.path \notin present THEN db
              ELSE add_file(db, [path        |-> ev.path,
                                 name        |-> PathName(ev.path),
                                 parent_path |-> PathParent(ev.path),
                                 file_type   |-> IF ev.is_directory
                                                 THEN "directory" ELSE "file",
                                 extension   |-> "",
                                 size        |-> FirstSize,
                                 mtime       |-> MTimeOf(ev.path)])
    ELSE db

\* _apply_event: a deleted event removes the entry; a created or modified
\* event adds the entry from the path's stat when the path still exists
\* (present: the paths on disk).
apply_event(db, ev, present) ==
    IF ev.event_type = "deleted" THEN remove_file(db, ev.path)
    ELSE IF ev.event_type \in {"created", "modified"}
         THEN IF ev.path \notin present THEN db
              ELSE add_file(db, [path        |-> ev.path,
                                 name        |-> PathName(ev.path),
                                 parent_path |-> PathParent(ev.path),
                                 file_type   |-> IF ev.is_directory
                                                 THEN "directory" ELSE "file",
                                 extension   |-> IF ev.is_directory
                                                 THEN "None" ELSE "",
                                 size        |-> IF ev.is_directory
                                                 THEN 0 ELSE FirstSize,
                                 mtime       |-> MTimeOf(ev.path)])
    ELSE db

\* The loop of _process_pending_events over events.items().
RECURSIVE apply_events(_, _, _)
apply_events(db, events, present) ==
    IF events = << >> THEN db
    ELSE apply_events(apply_event(db, Head(events), present), Tail(events), present)

\* A step of the handler: the new pending map, the new store and the record
\* of what was queued since the last drain (lastOp) and of what the drain
\* applied (resp).
WatcherStep(pending, db, op, newResp) ==
    /\ pending_events' = pending
    /\ file_metadata' = db.md
    /\ file_name_index' = db.tri
    /\ file_name_bigrams' = db.bi
    /\ watch_paths' = db.wp
    /\ trigram_table' = db.tt
    /\ lastOp' = op
    /\ resp' = newResp
    /\ UNCHANGED <<coordVars, ignore_patterns, lock, conn, worldVars>>

\* The events queued since the last drain.
Queued == IF lastOp.op = "queue_event" THEN lastOp.queued ELSE << >>

\* _queue_event for each of a callback's events in turn: an ignored path is
\* dropped, any other is put into the map.
RECURSIVE QueueAll(_, _)
QueueAll(pq, events) ==
    IF events = << >> THEN pq
    ELSE LET ev == Head(events)
             next == IF is_ignored(ignore_patterns, ev.path) THEN pq
                     ELSE [pending |-> queue_event(pq.pending, ev.event_type,
                                                   ev.path, ev.is_directory),
                           queued  |-> Append(pq.queued, ev)]
         IN  QueueAll(next, Tail(events))

Callback(events) ==
    /\ nops < MaxOps
    /\ nops' = nops + 1
    /\ LET pq == QueueAll([pending |-> pending_events, queued |-> Queued], events)
       IN  WatcherStep(pq.pending, DB,
                       [op |-> "queue_event", queued |-> pq.queued], NoResp)

Event(event_type, path, is_directory) ==
    [path |-> path, event_type |-> event_type, is_directory |-> is_directory]

OnCreated ==
    \E path \in EventPaths, is_directory \in BOOLEAN :
        Callback(<<Event("created", path, is_directory)>>)

OnDeleted ==
    \E path \in EventPaths, is_directory \in BOOLEAN :
        Callback(<<Event("deleted", path, is_directory)>>)

\* on_modified leaves out the events of directories.
OnModified ==
    \E path \in EventPaths, is_directory \in BOOLEAN :
        Callback(IF is_directory THEN << >>
                 ELSE <<Event("modified", path, is_directory)>>)

\* on_moved: the source is queued as deleted, then the destination as created.
on_moved(src_path, dest_path, is_directory) ==
    <<Event("deleted", src_path, is_directory),
      Event("created", dest_path, is_directory)>>

OnMoved ==
    \E src_path \in EventPaths, dest_path \in EventPaths, is_directory \in BOOLEAN :
        /\ src_path # dest_path
        /\ Callback(on_moved(src_path, dest_path, is_directory))

\* _process_pending_events, run by the debounce timer or by flush: the map is
\* copied and cleared under the handler's lock, then every item is applied.
ProcessPendingEvents ==
    /\ lastOp.op = "queue_event"
    /\ UNCHANGED nops
    /\ WatcherStep(<< >>, apply_events(DB, pending_events, disk),
                   [op |-> "process_pending_events"],
                   [op |-> "process_pending_events",
                    applied |-> pending_events, queued |-> Queued])

\* The handler starts with an empty map on an empty index; the pattern table
\* is empty or holds the directory's name.
InitWatcher ==
    /\ \E tt \in BOOLEAN : EmptyDB(tt)
    /\ lastOp = [op |-> "init_db", path |-> << >>]
    /\ nops = 0
    /\ resp = NoResp
    /\ CoordIdle
    /\ ignore_patterns \in {<< >>, <<Pat_d>>}
    /\ pending_events = << >>
    /\ lock = "free"
    /\ conn = << >>
    /\ WorldIdle

NextWatcher ==
    \/ OnCreated
    \/ OnDeleted
    \/ OnModified
    \/ OnMoved
    \/ ProcessPendingEvents

SpecWatcher == InitWatcher /\ [][NextWatcher]_vars

-----------------------------------------------------------------------------
(* The two writers of entries side by side: crawls of the root and the       *)
(* watcher's callbacks and drains, on one index.                             *)

NextEntries == Crawl \/ NextWatcher

SpecEntries == InitWatcher /\ [][NextEntries]_vars

-----------------------------------------------------------------------------
(* Moves under a watcher that runs on a crawled index.  The files of the     *)
(* root are renamed on disk and the observer reports each rename to          *)
(* on_moved; the patterns registered before the crawl stay as they are.      *)

\* The paths a file is moved between.
MovePaths == {P_aab, P_a_b, P_aAb}

\* A rename of a file on disk, reported to on_moved.
FileMoved ==
    \E src_path \in MovePaths \cap disk, dest_path \in MovePaths \ disk :
        /\ nops < MaxOps
        /\ nops' = nops + 1
        /\ disk' = (disk \ {src_path}) \cup {dest_path}
        /\ LET pq == QueueAll([pending |-> pending_events, queued |-> Queued],
                              on_moved(src_path, dest_path, FALSE))
           IN  /\ pending_events' = pq.pending
               /\ lastOp' = [op |-> "queue_event", queued |-> pq.queued]
        /\ resp' = NoResp
        /\ UNCHANGED <<storeVars, coordVars, ignore_patterns, lock, conn, watcher>>

\* The index holds what the crawl of the root recorded with the registered
\* patterns (none, or one that names the directory with a wildcard).
InitMove ==
    /\ \E tbl \in {<< >>, <<Pat_rdStar>>}, tt \in BOOLEAN :
          LET crawled == scanned_paths(SeqToSet(get_ignore_patterns(tbl)), Root)
              db == register_path(RebuiltCorpus(CorpusList(crawled), tt), Root)
          IN  /\ file_metadata = db.md
              /\ file_name_index = db.tri
              /\ file_name_bigrams = db.bi
              /\ watch_paths = db.wp
              /\ trigram_table = db.tt
              /\ ignore_patterns = tbl
    /\ lastOp = [op |-> "rebuild_bigram_index", path |-> << >>]
    /\ nops = 0
    /\ resp = NoResp
    /\ CoordIdle
    /\ pending_events = << >>
    /\ lock = "free"
    /\ conn = << >>
    /\ WorldIdle

NextMove == FileMoved \/ ProcessPendingEvents

SpecMove == InitMove /\ [][NextMove]_vars

-----------------------------------------------------------------------------
(* Drains that overlap.  _process_pending_events copies and clears the map   *)
(* under the handler's lock and applies the copy after releasing it, on the  *)
(* timer's thread; every _queue_event starts a new timer, so a second drain  *)
(* can start while an earlier one is still applying its copy.  tasks holds   *)
(* the drains that are running, each with the events it has yet to apply.    *)

\* The kind of the last event observed for every path.
Observed == IF lastOp.op = "observe" THEN lastOp.last
            ELSE [p \in EventPaths |-> "none"]

DrainStep(pending, db, running, present, last) ==
    /\ pending_events' = pending
    /\ file_metadata' = db.md
    /\ file_name_index' = db.tri
    /\ file_name_bigrams' = db.bi
    /\ watch_paths' = db.wp
    /\ trigram_table' = db.tt
    /\ tasks' = running
    /\ disk' = present
    /\ lastOp' = [op |-> "observe", last |-> last]
    /\ UNCHANGED <<resp, disk_ok, startup, ignore_patterns, lock, conn, watcher>>

\* The file system changes and the observer calls the handler, which queues
\* the event.
Observe(event_type, path, present) ==
    /\ nops < MaxOps
    /\ nops' = nops + 1
    /\ DrainStep(queue_event(pending_events, event_type, path, path \in Directories),
                 DB, tasks, present, [Observed EXCEPT ![path] = event_type])

FileCreated ==
    \E path \in EventPaths :
        path \notin disk /\ Observe("created", path, disk \cup {path})

FileDeleted ==
    \E path \in EventPaths :
        path \in disk /\ Observe("deleted", path, disk \ {path})

\* on_modified passes the events of files only.
FileModified ==
    \E path \in EventPaths :
        path \in disk /\ path \notin Directories /\ Observe("modified", path, disk)

\* The timer fires: the map is copied and cleared under the handler's lock.
TimerFires ==
    /\ pending_events # << >>
    /\ Len(tasks) < MaxDrains
    /\ UNCHANGED nops
    /\ DrainStep(<< >>, DB,
                 Append(tasks, [kind |-> "drain", pc |-> "next",
                                events |-> pending_events]),
                 disk, Observed)

\* The running drains after drain i is done with the first of its events.
EventDone(i) ==
    IF Len(tasks[i].events) = 1
    THEN SubSeq(tasks, 1, i - 1) \o SubSeq(tasks, i + 1, Len(tasks))
    ELSE [tasks EXCEPT ![i] = [@ EXCEPT !.pc = "next", !.events = Tail(@)]]

\* _apply_event of a created or modified event up to stat(): an event whose
\* path is gone is skipped.
DrainStat(i) ==
    /\ tasks[i].pc = "next"
    /\ Head(tasks[i].events).event_type \in {"created", "modified"}
    /\ UNCHANGED nops
    /\ IF Head(tasks[i].events).path \in disk
       THEN DrainStep(pending_events, DB, [tasks EXCEPT ![i].pc = "stat"], disk, Observed)
       ELSE DrainStep(pending_events, DB, EventDone(i), disk, Observed)

\* The store call of _apply_event: remove_file for a deleted event, add_file
\* with what stat() returned for a created or modified one.
DrainWrite(i) ==
    /\ \/ tasks[i].pc = "next" /\ Head(tasks[i].events).event_type = "deleted"
       \/ tasks[i].pc = "stat"
    /\ UNCHANGED nops
    /\ LET ev == Head(tasks[i].events)
       IN  DrainStep(pending_events, apply_event(DB, ev, {ev.path}), EventDone(i),
                     disk, Observed)

InitDrains ==
    /\ \E tt \in BOOLEAN : EmptyDB(tt)
    /\ lastOp = [op |-> "init_db", path |-> << >>]
    /\ nops = 0
    /\ resp = NoResp
    /\ CoordIdle
    /\ AuxIdle

NextDrains ==
    \/ FileCreated
    \/ FileDeleted
    \/ FileModified
    \/ TimerFires
    \/ \E i \in 1..Len(tasks) : DrainStat(i)
    \/ \E i \in 1..Len(tasks) : DrainWrite(i)

SpecDrains == InitDrains /\ [][NextDrains]_vars

-----------------------------------------------------------------------------
(* Shutdown.  After the yield, lifespan stops the watcher and closes the     *)
(* store's connection of the event loop's thread.  startup.pc is the         *)
(* position of the service: "started" while it serves, then "stopped" and    *)
(* "closed".  The handler's timer is a thread of its own: stop neither       *)
(* cancels it nor drains the map.                                            *)

\* The observer reports a file change while the watcher runs.
ObserverReports ==
    /\ watcher.running
    /\ \/ FileCreated
       \/ FileDeleted
       \/ FileModified

\* What lifespan does to the service at shutdown, one call per step.
LifespanStep(pc, w) ==
    /\ startup' = [startup EXCEPT !.pc = pc]
    /\ watcher' = w
    /\ UNCHANGED <<storeVars, tasks, disk_ok, lastOp, nops, resp, ignore_patterns,
                   pending_events, lock, conn, disk>>

\* _file_watcher.stop(): the observer is stopped and joined, the handler is
\* dropped.
stop ==
    /\ startup.pc = "started"
    /\ LifespanStep("stopped", NoWatcher)

\* _index_service.close(): the connection of the calling thread is closed.
close ==
    /\ startup.pc = "stopped"
    /\ LifespanStep("closed", watcher)

\* The service runs on the index an earlier crawl left, with the watcher
\* started on the root.
InitShutdown ==
    /\ \E tt \in BOOLEAN, order \in Orderings(Subdirs(Root)) :
          LET db == AfterEarlierRun(tt, order)
          IN  /\ file_metadata = db.md
              /\ file_name_index = db.tri
              /\ file_name_bigrams = db.bi
              /\ watch_paths = db.wp
              /\ trigram_table = db.tt
    /\ lastOp = [op |-> "init_db", path |-> << >>]
    /\ nops = 0
    /\ resp = NoResp
    /\ disk_ok = TRUE
    /\ tasks = << >>
    /\ startup = [pc |-> "started", scan |-> TRUE]
    /\ ignore_patterns = << >>
    /\ pending_events = << >>
    /\ lock = "free"
    /\ conn = << >>
    /\ disk = DiskPaths
    /\ watcher = [running |-> TRUE, scheduled |-> {Root}]

NextShutdown ==
    \/ ObserverReports
    \/ TimerFires
    \/ \E i \in 1..Len(tasks) : DrainStat(i)
    \/ \E i \in 1..Len(tasks) : DrainWrite(i)
    \/ stop
    \/ close

SpecShutdown == InitShutdown /\ [][NextShutdown]_vars

-----------------------------------------------------------------------------
(* A crawl while the watcher is running (a rebuild of a watched root).  The  *)
(* workers read the disk, the records wait in the crawl's batch list and     *)
(* on_batch writes them batch by batch on the event loop, while the          *)
(* observer queues events and the timer's thread drains them.                *)

\* The files that change during the crawl: one right below the root and one
\* inside its sub-directory.
ChangedPaths == {P_aab, P_a_b}

\* scan_directory's on_batch calls when the workers find the paths of present
\* on disk.
scan_directory_present(present, root, order) ==
    SplitBatches(SelectSeq(ConcatScans(order), LAMBDA f : f.path \in present),
                 BatchSize)

\* Whether a crawl was started and whether it has returned.
CrawlState == IF resp.op = "crawl" THEN resp.state ELSE "none"

RaceStep(pending, db, running, present, state) ==
    /\ pending_events' = pending
    /\ file_metadata' = db.md
    /\ file_name_index' = db.tri
    /\ file_name_bigrams' = db.bi
    /\ watch_paths' = db.wp
    /\ trigram_table' = db.tt
    /\ tasks' = running
    /\ disk' = present
    /\ resp' = IF state = "none" THEN NoResp ELSE [op |-> "crawl", state |-> state]
    /\ UNCHANGED <<lastOp, disk_ok, startup, ignore_patterns, lock, conn, watcher>>

\* A file appears or disappears and the observer's callback queues the event.
RaceChange(event_type, path, present) ==
    /\ nops < MaxOps
    /\ nops' = nops + 1
    /\ RaceStep(queue_event(pending_events, event_type, path, FALSE), DB, tasks,
                present, CrawlState)

RaceCreated ==
    \E path \in ChangedPaths :
        path \notin disk /\ RaceChange("created", path, disk \cup {path})

RaceDeleted ==
    \E path \in ChangedPaths :
        path \in disk /\ RaceChange("deleted", path, disk \ {path})

\* The timer fires and _process_pending_events applies the map.
RaceDrain ==
    /\ pending_events # << >>
    /\ UNCHANGED nops
    /\ RaceStep(<< >>, apply_events(DB, pending_events, disk), tasks, disk, CrawlState)

\* scan_with_index_service starts: the workers list and stat the tree.
RaceScan ==
    /\ CrawlState = "none"
    /\ UNCHANGED nops
    /\ \E order \in Orderings(Subdirs(Root) \cap disk) :
           RaceStep(pending_events, DB,
                    <<[kind |-> "crawl", pc |-> "batches", total_count |-> 0,
                       batches |-> scan_directory_present(disk, Root, order)]>>,
                    disk, "running")

\* on_batch: the next batch goes to batch_add_files and is counted.
RaceBatch ==
    /\ CrawlState = "running"
    /\ tasks[1].batches # << >>
    /\ UNCHANGED nops
    /\ RaceStep(pending_events, batch_add_files(DB, Head(tasks[1].batches)),
                [tasks EXCEPT ![1].batches = Tail(@),
                              ![1].total_count = @ + Len(Head(tasks[1].batches))],
                disk, "running")

\* scan_with_index_service returns; the task stores the counts and marks the
\* root watching.
RaceReturn ==
    /\ CrawlState = "running"
    /\ tasks[1].batches = << >>
    /\ UNCHANGED nops
    /\ LET count == tasks[1].total_count
       IN  RaceStep(pending_events,
                    update_path_status(update_path_stats(DB, Root, count, count),
                                       Root, "watching"),
                    [tasks EXCEPT ![1].pc = "tri"], disk, "returned")

\* The task's rebuild_trigram_index in the executor.
RaceRebuildTrigram ==
    /\ tasks # << >>
    /\ tasks[1].pc = "tri"
    /\ UNCHANGED nops
    /\ RaceStep(pending_events, rebuild_trigram_index(DB),
                [tasks EXCEPT ![1].pc = "bi"], disk, CrawlState)

\* The task's rebuild_bigram_index in the executor; the task ends.
RaceRebuildBigram ==
    /\ tasks # << >>
    /\ tasks[1].pc = "bi"
    /\ UNCHANGED nops
    /\ RaceStep(pending_events, rebuild_bigram_index(DB), << >>, disk, CrawlState)

\* The root is registered and watched, and the index holds what is on disk
\* (the state a rebuild of a watched root starts from) or nothing.
InitRace ==
    /\ \E tt \in BOOLEAN, indexed \in {{}, DiskPaths} :
           LET db == register_path(RebuiltCorpus(CorpusList(indexed), tt), Root)
           IN  /\ file_metadata = db.md
               /\ file_name_index = db.tri
               /\ file_name_bigrams = db.bi
               /\ watch_paths = db.wp
               /\ trigram_table = db.tt
    /\ lastOp = [op |-> "init_db", path |-> << >>]
    /\ nops = 0
    /\ resp = NoResp
    /\ CoordIdle
    /\ ignore_patterns = << >>
    /\ pending_events = << >>
    /\ lock = "free"
    /\ conn = << >>
    /\ disk = DiskPaths
    /\ watcher = [running |-> TRUE, scheduled |-> {Root}]

NextRace ==
    \/ RaceCreated
    \/ RaceDeleted
    \/ RaceDrain
    \/ RaceScan
    \/ RaceBatch
    \/ RaceReturn
    \/ RaceRebuildTrigram
    \/ RaceRebuildBigram

SpecRace == InitRace /\ [][NextRace]_vars

\* DELETE /paths for the crawled root: remove_path(path) and nothing else; the
\* crawl and the watcher go on as before.
AdminRemovePath ==
    /\ Root \in DOMAIN watch_paths
    /\ UNCHANGED nops
    /\ RaceStep(pending_events, remove_path(DB, Root), tasks, disk, CrawlState)

\* Two roots are registered, the crawled root and a sibling whose name begins
\* with the name of the crawled root; the index holds the sibling's file and
\* the crawled root's tree or nothing of it.
InitRemove ==
    /\ \E tt \in BOOLEAN, indexed \in {{}, DiskPaths} :
           LET db == register_path(register_path(
                         RebuiltCorpus(CorpusList(indexed \cup {P_x}), tt), Root), P_rx)
           IN  /\ file_metadata = db.md
               /\ file_name_index = db.tri
               /\ file_name_bigrams = db.bi
               /\ watch_paths = db.wp
               /\ trigram_table = db.tt
    /\ lastOp = [op |-> "init_db", path |-> << >>]
    /\ nops = 0
    /\ resp = NoResp
    /\ CoordIdle
    /\ ignore_patterns = << >>
    /\ pending_events = << >>
    /\ lock = "free"
    /\ conn = << >>
    /\ disk = DiskPaths \cup {P_rx, P_x}
    /\ watcher = [running |-> TRUE, scheduled |-> {Root, P_rx}]

NextRemove ==
    \/ NextRace
    \/ AdminRemovePath

SpecRemove == InitRemove /\ [][NextRemove]_vars

-----------------------------------------------------------------------------
(* Threads and connections.  Every thread has its own SQLite connection      *)
(* (_get_connection, threading.local); a write statement opens a transaction *)
(* on the caller's connection, which holds the database's write lock until   *)
(* the connection commits.  A connection reads the committed database plus   *)
(* its own open transaction (WAL).  The store's calls take IndexService._lock *)
(* in a with-block where the code does so.                                   *)

\* The event loop's thread (crawl batches, async handlers) and another thread
\* (the watcher's timer, an executor worker).
Threads == {"loop", "worker"}

NoTx == [open |-> FALSE]
NoCall == [name |-> "none", locked |-> FALSE, files |-> << >>]

\* The database as thread t's connection sees it.
Visible(t) == IF conn[t].tx.open THEN conn[t].tx.db ELSE DB

\* Another connection has an open write transaction.
WriteLockHeldByOther(t) == \E u \in Threads \ {t} : conn[u].tx.open

\* A lock whose with-block never waits.
can_acquire_always(l, locked) == TRUE

\* with self._lock: a call that takes the lock waits until it is free.
can_acquire(l, locked) == ~locked \/ l = "free"

\* A name that the file system returned with a byte that is not UTF-8: the
\* sqlite3 module cannot bind it (UnicodeEncodeError).
P_bad == <<"/", "r", "/", "d", "/", "b", "\\udcff">>
Bindable(f) == \A i \in 1..Len(f.path) : f.path[i] # "\\udcff"

\* cursor.executemany over the records, in its own words: every record is
\* inserted in turn, and the first one that cannot be bound raises, with the
\* rows before it left in the connection's transaction.
RECURSIVE executemany(_, _)
executemany(db, files) ==
    IF files = << >> THEN [db |-> db, ok |-> TRUE]
    ELSE IF ~Bindable(Head(files)) THEN [db |-> db, ok |-> FALSE]
    ELSE executemany(insert_or_replace(db, Head(files)), Tail(files))

\* UPDATE watch_paths SET error_message = ? WHERE path = ?.
update_error_message(db, path, message) ==
    IF path \in DOMAIN db.wp
    THEN [db EXCEPT !.wp[path].error_message = message]
    ELSE db

\* The write statements of a call, applied to what its connection sees.
statements(call, db) ==
    CASE call.name = "add_file" -> [db |-> add_file(db, call.files[1]), ok |-> TRUE]
      [] call.name = "batch_add_files" -> executemany(db, call.files)
      [] call.name = "error_message" ->
            [db |-> update_error_message(db, Root, "error"), ok |-> TRUE]
      [] OTHER -> [db |-> db, ok |-> TRUE]

\* The calls of the model.
AddFileCall(path) ==
    [name |-> "add_file", locked |-> TRUE, files |-> <<MkFileInfo(path, FirstSize)>>]
BatchCall(paths) ==
    [name |-> "batch_add_files", locked |-> TRUE,
     files |-> [i \in 1..Len(paths) |-> MkFileInfo(paths[i], FirstSize)]]
\* The except-branch of _scan_path and _rebuild_path: no with self._lock.
ErrorMessageCall == [name |-> "error_message", locked |-> FALSE, files |-> << >>]
\* init_db: the with-block ends after the PRAGMA; the CREATE statements and
\* the commit follow it.
InitDbCall == [name |-> "init_db", locked |-> FALSE, files |-> << >>]

\* The batches a crawl hands over: one whose records all bind, one with a
\* record in the middle that does not.
GoodBatch == <<P_aab, P_x>>
BadBatch == <<P_a_b, P_bad, P_e>>

ThreadStep(t, c, newLock, newResp) ==
    /\ conn' = [conn EXCEPT ![t] = c]
    /\ lock' = newLock
    /\ resp' = newResp
    /\ UNCHANGED <<storeVars, lastOp, disk_ok, tasks, ignore_patterns, pending_events, worldVars>>

\* A thread enters a call; a call that takes the lock waits for it.
Enter(t, call) ==
    /\ conn[t].pc = "idle"
    /\ can_acquire(lock, call.locked)
    /\ ThreadStep(t, [conn[t] EXCEPT !.pc = "entered", !.call = call],
                  IF call.locked THEN t ELSE lock, NoResp)

\* cursor.execute / executemany of the call.  When another connection holds
\* the write lock the statement waits and, the holder not committing within
\* the timeout, raises "database is locked".  An exception leaves the
\* with-block, which releases the lock; nothing rolls the transaction back.
Execute(t) ==
    /\ conn[t].pc = "entered"
    /\ UNCHANGED <<nops, startup>>
    /\ LET call == conn[t].call
           released == IF call.locked THEN "free" ELSE lock
       IN  IF WriteLockHeldByOther(t)
           THEN ThreadStep(t, [conn[t] EXCEPT !.pc = "idle", !.call = NoCall,
                                              !.calls = @ + 1,
                                              !.error = "database is locked"],
                           released, NoResp)
           ELSE LET r == statements(call, Visible(t))
                IN  IF r.ok
                    THEN ThreadStep(t, [conn[t] EXCEPT
                                           !.pc = "executed",
                                           !.tx = [open |-> TRUE, db |-> r.db]],
                                    lock, NoResp)
                    ELSE ThreadStep(t, [conn[t] EXCEPT
                                           !.pc = "idle", !.call = NoCall,
                                           !.calls = @ + 1,
                                           !.tx = [open |-> TRUE, db |-> r.db],
                                           !.error = "bind",
                                           !.failed = @ \cup {f.path : f \in SeqToSet(call.files)}],
                                    released, NoResp)

\* conn.commit() and the end of the with-block.
CommitCall(t) ==
    /\ conn[t].pc = "executed"
    /\ LET db == conn[t].tx.db
           call == conn[t].call
       IN  /\ file_metadata' = db.md
           /\ file_name_index' = db.tri
           /\ file_name_bigrams' = db.bi
           /\ watch_paths' = db.wp
           /\ trigram_table' = db.tt
           /\ conn' = [conn EXCEPT ![t] = [@ EXCEPT !.pc = "idle", !.call = NoCall,
                                                    !.calls = @ + 1, !.tx = NoTx]]
           /\ lock' = IF call.locked THEN "free" ELSE lock
           /\ lastOp' = [op |-> call.name, thread |-> t]
           /\ startup' = IF call.name = "init_db"
                         THEN [startup EXCEPT !.pc = "off"] ELSE startup
           /\ resp' = NoResp
           /\ UNCHANGED <<nops, disk_ok, tasks, ignore_patterns, pending_events, worldVars>>

\* get_file_count / get_file / search on thread t's connection, between the
\* thread's calls: the paths it finds.
Read(t) ==
    /\ conn[t].pc = "idle"
    /\ startup.pc = "off"
    /\ resp = NoResp
    /\ UNCHANGED <<nops, startup>>
    /\ ThreadStep(t, conn[t], lock,
                  [op |-> "read", thread |-> t,
                   paths |-> {e.path : e \in Visible(t).md}])

\* The reader takes its answer.
ReadReturn ==
    /\ resp # NoResp
    /\ resp' = NoResp
    /\ UNCHANGED <<storeVars, lastOp, nops, coordVars, auxVars>>

IdleConn == [pc |-> "idle", call |-> NoCall, tx |-> NoTx, calls |-> 0,
             error |-> "none", failed |-> {}]

\* test_concurrent_writes: every thread calls add_file MaxWrites times, each
\* call on a path of its own.
WriterPaths == <<P_aab, P_x, P_a_b, P_aAb, P_d, P_e>>
WriterPath(t, i) == WriterPaths[(IF t = "loop" THEN 0 ELSE MaxWrites) + i]

WriterAddFile(t) ==
    /\ conn[t].calls < MaxWrites
    /\ UNCHANGED <<nops, startup>>
    /\ Enter(t, AddFileCall(WriterPath(t, conn[t].calls + 1)))

InitWriters ==
    /\ \E tt \in BOOLEAN : EmptyDB(tt)
    /\ lastOp = [op |-> "init_db", path |-> << >>]
    /\ nops = 0
    /\ resp = NoResp
    /\ CoordIdle
    /\ ignore_patterns = << >>
    /\ pending_events = << >>
    /\ lock = "free"
    /\ conn = [t \in Threads |-> IdleConn]
    /\ WorldIdle

NextWriters ==
    \E t \in Threads :
        \/ WriterAddFile(t)
        \/ Execute(t)
        \/ CommitCall(t)

SpecWriters == InitWriters /\ [][NextWriters]_vars

\* The service: init_db at startup on the loop's thread, then crawl batches
\* and the error handler on the loop's thread, add_file on the other thread
\* (a watcher event), and reads on either.
InitDb ==
    /\ startup.pc = "init_db"
    /\ UNCHANGED <<nops, startup>>
    /\ Enter("loop", InitDbCall)

LoopCall(call) ==
    /\ startup.pc = "off"
    /\ nops < MaxOps
    /\ nops' = nops + 1
    /\ UNCHANGED startup
    /\ Enter("loop", call)

BatchAddFilesCall == \E b \in {GoodBatch, BadBatch} : LoopCall(BatchCall(b))

ErrorMessage == LoopCall(ErrorMessageCall)

WorkerAddFile ==
    /\ startup.pc = "off"
    /\ nops < MaxOps
    /\ nops' = nops + 1
    /\ UNCHANGED startup
    /\ Enter("worker", AddFileCall(P_aAb))

InitThreads ==
    /\ \E tt \in BOOLEAN :
          LET db == register_path([md |-> {}, tri |-> {}, bi |-> EmptyBag,
                                   wp |-> << >>, tt |-> tt], Root)
          IN  /\ file_metadata = db.md
              /\ file_name_index = db.tri
              /\ file_name_bigrams = db.bi
              /\ watch_paths = db.wp
              /\ trigram_table = db.tt
    /\ lastOp = [op |-> "none", thread |-> "loop"]
    /\ nops = 0
    /\ resp = NoResp
    /\ disk_ok = TRUE
    /\ tasks = << >>
    /\ startup = [pc |-> "init_db", scan |-> FALSE]
    /\ ignore_patterns = << >>
    /\ pending_events = << >>
    /\ lock = "free"
    /\ conn = [t \in Threads |-> IdleConn]
    /\ WorldIdle

NextThreads ==
    \/ InitDb
    \/ BatchAddFilesCall
    \/ ErrorMessage
    \/ WorkerAddFile
    \/ \E t \in Threads : Execute(t)
    \/ \E t \in Threads : CommitCall(t)
    \/ \E t \in Threads : Read(t)
    \/ ReadReturn

SpecThreads == InitThreads /\ [][NextThreads]_vars

-----------------------------------------------------------------------------
(* Properties of the store (specification Spec). *)

IndexedPaths == {e.path : e \in file_metadata}

\* The paths an insert step writes.
WrittenPaths(op) ==
    CASE op.op = "add_file" -> {op.path}
      [] op.op = "batch_add_files" -> {op.first, op.path}
      [] op.op = "crawl" -> {f.path : f \in SeqToSet(ConcatScans(SortedPaths(Subdirs(op.path))))}
      [] OTHER -> {}

PathUnique == \A e1, e2 \in file_metadata : e1.path = e2.path => e1 = e2

\* An insert step whose paths are all indexed already leaves the count as it was
\* and leaves each written path with the record that was written.
ReinsertKeepsCount ==
    (/\ nops' = nops + 1
     /\ lastOp'.op \in {"add_file", "batch_add_files", "crawl"}
     /\ WrittenPaths(lastOp') \subseteq IndexedPaths)
        => /\ Cardinality(file_metadata') = Cardinality(file_metadata)
           /\ \A p \in WrittenPaths(lastOp') :
                \E e \in file_metadata' : e.path = p /\ e.size = MkFileInfo(p, FirstSize).size

\* C1: in every reachable state no two entries share a path, and add_file,
\* batch_add_files or a crawl over paths that are all indexed already replaces
\* the entries and leaves the entry count unchanged.
C1_PathIsKey == [](PathUnique) /\ [][ReinsertKeepsCount]_vars

\* A second crawl of the unchanged tree has run: the crawled paths are the only
\* entries and all of them carry rowids assigned by the second crawl.
C1_Witness ==
    /\ lastOp.op = "crawl"
    /\ IndexedPaths = WrittenPaths(lastOp)
    /\ \A e \in file_metadata : e.id > Cardinality(IndexedPaths)

\* C3: after every store write, every entry has exactly one file_name_bigrams row
\* for each unique bigram of its name, and every file_name_bigrams row belongs to
\* a current entry and one of its bigrams.
C3_BigramConsistent ==
    /\ \A e \in file_metadata : \A g \in unique_bigrams(e.name) :
          CopiesIn(<<e.id, g>>, file_name_bigrams) = 1
    /\ \A row \in BagToSet(file_name_bigrams) :
          \E e \in file_metadata : e.id = row[1] /\ row[2] \in unique_bigrams(e.name)

\* The trigram index rows the current entries call for.
ExpectedTrigramIndex ==
    UNION {{<<e.id, t[1], t[2]>> : t \in TrigramTokens(e.name)} : e \in file_metadata}

\* C4: when the trigram index is available, after every store write it holds
\* every current entry under its id with its current name, and holds nothing
\* under the id of a deleted or replaced entry.
C4_TrigramConsistent ==
    trigram_table => file_name_index = ExpectedTrigramIndex

\* p is R or lies below R (by path components).
IsUnder(p, R) == IsRelativeTo(p, R)

NoEntryUnder(md, R) == \A e \in md : ~IsUnder(e.path, R)

\* The state remove_path(R) leaves: no entry under R and R not registered.
RemovePathPost ==
    lastOp.op = "remove_path" =>
        /\ NoEntryUnder(file_metadata, lastOp.path)
        /\ lastOp.path \notin DOMAIN watch_paths

\* A step in which R leaves the registry also leaves no entry under R, and a
\* remove_path step that deletes entries under a registered R unregisters R.
RemovePathOneCommit ==
    \A R \in StoreRoots :
        /\ (R \in DOMAIN watch_paths /\ R \notin DOMAIN watch_paths')
              => NoEntryUnder(file_metadata', R)
        /\ (/\ lastOp'.op = "remove_path" /\ lastOp'.path = R /\ nops' = nops + 1
            /\ ~NoEntryUnder(file_metadata, R))
              => (NoEntryUnder(file_metadata', R) /\ R \notin DOMAIN watch_paths')

\* C9: after remove_path(R) no entry under R remains and R is not registered, and
\* both deletions appear in the same committed state.
C9_RemovePath == [](RemovePathPost) /\ [][RemovePathOneCommit]_vars

\* remove_path has just removed a registered root that had entries below it at
\* two levels; the store now holds neither.
C9_Witness ==
    /\ lastOp.op = "remove_path"
    /\ lastOp.had_root
    /\ lastOp.removed >= 2
    /\ NoEntryUnder(file_metadata, lastOp.path)

-----------------------------------------------------------------------------
(* Properties of the query engine (specifications SpecQuery and SpecPage). *)

Searched == resp.op = "search"

ResultSet == SeqToSet(resp.result)

\* C2: after the entries were inserted and both n-gram indexes rebuilt, a
\* search with no filter for a query that is a 2- or 3-character substring of
\* an indexed name returns exactly the entries whose name contains the query.
C2_SubstringSearchExact ==
    (/\ Searched
     /\ Len(resp.req.query) \in {2, 3}
     /\ \E m \in file_metadata : IsSubstr(resp.req.query, m.name))
    => ResultSet = {m \in file_metadata : IsSubstr(resp.req.query, m.name)}

\* The same entries in a database of the other trigram availability, its
\* n-gram indexes rebuilt.
OtherAvailability(db) ==
    IF db.tt THEN [db EXCEPT !.tt = FALSE, !.tri = {}]
    ELSE rebuild_trigram_index([db EXCEPT !.tt = TRUE])

\* C5: for the same entries and a query of two or more characters, search
\* returns the same set of entries whether or not the trigram index is
\* available.
C5_SameSetEitherAvailability ==
    (Searched /\ Len(resp.req.query) >= 2)
    => ResultSet = where_rows(OtherAvailability(DB), resp.req)

\* The strategy table of the specification.
StrategyTable(n, available) ==
    CASE n = 0 -> "all"
      [] n = 1 -> "like"
      [] n = 2 -> "bigram"
      [] n >= 3 /\ available -> "trigram"
      [] n >= 3 /\ ~available -> "like"

\* C6: the lookup strategy is the one the table gives for the length of the
\* query and the availability of the trigram index, whatever the path, kind,
\* depth, sort and pagination arguments are.
C6_StrategyByLengthAndAvailability ==
    Searched => resp.strategy = StrategyTable(Len(resp.req.query), trigram_table)

C6_Witness ==
    /\ Searched
    /\ resp.strategy = "trigram"
    /\ resp.req.path_filter = P_d
    /\ resp.req.type_filter = "file"
    /\ resp.req.depth > 0
    /\ resp.req.offset > 0
    /\ resp.req.sort = "size"
    /\ ~resp.req.ascending

\* The entry passes the depth filter of the request.
PassesDepth(m, req) ==
    (req.path_filter # << >> /\ req.depth > 0)
    => /\ IsRelativeTo(m.path, req.path_filter)
       /\ RelativeDepth(m.path, req.path_filter) <= req.depth

\* The rows that pass the query, path-prefix and kind filters, in the order of
\* the sort, restricted to those that pass the depth filter.
Survivors == SelectSeq(resp.ordered, LAMBDA m : PassesDepth(m, resp.req))

Min(a, b) == IF a < b THEN a ELSE b

\* C7: the result is elements o .. o+m-1 of the sorted list of the entries that
\* pass every filter, the depth filter included, and holds at most m rows.
C7_Pagination ==
    Searched
    => /\ resp.result = SubSeq(Survivors, resp.req.offset + 1,
                               Min(resp.req.offset + resp.req.max_results, Len(Survivors)))
       /\ Len(resp.result) <= resp.req.max_results

\* C8: with a path filter and a depth above zero the result holds only entries
\* within the depth under the path filter and, read from the start, leaves out
\* none of them short of max_results; otherwise depth changes nothing.
C8_DepthFilter ==
    Searched
    => IF resp.req.path_filter # << >> /\ resp.req.depth > 0
       THEN /\ \A m \in ResultSet :
                 /\ IsRelativeTo(m.path, resp.req.path_filter)
                 /\ RelativeDepth(m.path, resp.req.path_filter) <= resp.req.depth
            /\ resp.req.offset = 0
               => \/ Len(resp.result) = resp.req.max_results
                  \/ SeqToSet(Survivors) \subseteq ResultSet
       ELSE resp.result = search(resp.ordered, [resp.req EXCEPT !.depth = 0])

-----------------------------------------------------------------------------
(* Properties of the coordinator (specification SpecCoord). *)

Statuses == {"idle", "scanning", "watching", "error"}

\* The transitions of section 3 of the specification.
NamedTransitions ==
    {<<"idle", "scanning">>, <<"scanning", "watching">>, <<"error", "scanning">>}
    \cup {<<st, "error">> : st \in Statuses}

\* The root stays registered over the step and its status changes only along
\* the given transitions.
StatusStepWithin(transitions) ==
    (/\ Root \in DOMAIN watch_paths
     /\ Root \in DOMAIN watch_paths'
     /\ watch_paths[Root].status # watch_paths'[Root].status)
    => <<watch_paths[Root].status, watch_paths'[Root].status>> \in transitions

\* A root that becomes registered in the step is idle after it.
NewRootIdle ==
    (Root \notin DOMAIN watch_paths /\ Root \in DOMAIN watch_paths')
    => watch_paths'[Root].status = "idle"

\* C10: a root that stays registered changes status only along idle ->
\* scanning, scanning -> watching, any -> error and error -> scanning, and a
\* newly registered root is idle.
C10_StatusTransitions == [][StatusStepWithin(NamedTransitions) /\ NewRootIdle]_vars

\* C10 as amended: the transitions above and also watching -> scanning (a
\* rebuild of a crawled root) and error -> watching (a crawl that ends after
\* another task on the same root failed); a registered root never becomes idle
\* again and never goes from idle to watching.
C10_StatusTransitionsAmended ==
    [][/\ StatusStepWithin(NamedTransitions
                           \cup {<<"watching", "scanning">>, <<"error", "watching">>})
       /\ NewRootIdle]_vars

\* Two rebuilds of the crawled root overlapped: one failed, the other ended,
\* and the root is watching.
C10_Witness ==
    /\ Root \in DOMAIN watch_paths
    /\ watch_paths[Root].status = "watching"
    /\ \E i, j \in 1..Len(tasks) :
          /\ tasks[i].kind = "rebuild" /\ tasks[i].pc = "failed"
          /\ tasks[j].kind = "rebuild" /\ tasks[j].pc = "done"

-----------------------------------------------------------------------------
(* Properties of the registry (specification SpecRegistry). *)

\* C11: in every state get_status reports ready exactly when some root is
\* watching and no root is scanning.
C11_ReadyIffWatchingAndNoneScanning ==
    get_status(DB).ready
        <=> /\ \E w \in DOMAIN watch_paths : watch_paths[w].status = "watching"
            /\ \A w \in DOMAIN watch_paths : watch_paths[w].status # "scanning"

\* GET /status has just answered not ready although one root is watching,
\* because another is scanning.
C11_Witness ==
    /\ resp.op = "get_status"
    /\ resp.status.paths = watch_paths
    /\ ~resp.status.ready
    /\ \E w \in DOMAIN watch_paths : watch_paths[w].status = "watching"
    /\ \E w \in DOMAIN watch_paths : watch_paths[w].status = "scanning"

\* The path is an enabled registered root or lies under one.
Covered(wp, path) ==
    \E w \in DOMAIN wp :
        /\ wp[w].enabled = 1
        /\ Len(w) <= Len(path)
        /\ PathParts(w) = SubSeq(PathParts(path), 1, Len(PathParts(w)))

\* The step is an add-path request for a covered path.
CoveredAddPath ==
    /\ resp' # resp
    /\ resp'.op = "add_path"
    /\ Covered(watch_paths, resp'.path)

NoSideEffect == UNCHANGED <<storeVars, tasks>>

\* C12: an add-path request for a covered path returns already_indexed and
\* creates no root, changes no status and starts no crawl.
C12_CoveredAddPath ==
    [][CoveredAddPath => (resp'.status = "already_indexed" /\ NoSideEffect)]_vars

\* C12 as amended: the same for a covered path that exists as a directory; an
\* add-path request for a covered path that does not exist is answered 404,
\* also without side effect.
C12_CoveredAddPathAmended ==
    [][CoveredAddPath =>
         /\ NoSideEffect
         /\ resp'.status = IF disk_ok THEN "already_indexed" ELSE "404"]_vars

\* POST /paths for /r/d was answered already_indexed while /r is registered
\* and /r/d is not.
C12_Witness ==
    /\ resp.op = "add_path"
    /\ resp.path = P_d
    /\ resp.status = "already_indexed"
    /\ P_r \in DOMAIN watch_paths
    /\ P_d \notin DOMAIN watch_paths

-----------------------------------------------------------------------------
(* Properties of the ignore patterns. *)

\* The names of a path: what lies between its separators.
Components(path) == SeqToSet(PathParts(path))

\* The registered patterns, as a set.
Registered == SeqToSet(ignore_patterns)

\* Claim C13: the crawler skips a path exactly when is_ignored is true of it:
\* after a crawl with the registered patterns, a path below the root is
\* missing from what the crawl recorded if and only if the store's is_ignored
\* answers true for it.
C13_SameIgnoreRule ==
    resp.op = "scan" =>
        \A p \in DiskPaths :
            (p \notin resp.scanned) <=> is_ignored(ignore_patterns, p)

\* Claim C14: with no pattern registered is_ignored is false; it is true when
\* a registered pattern without a separator matches one of the path's names
\* as a glob; and it is false when no registered pattern matches the full
\* path or one of its names.
C14_IsIgnoredByComponent ==
    resp.op = "is_ignored" =>
        LET SepFree == {pat \in Registered : ~(\E j \in 1..Len(pat) : pat[j] = "/")}
            nameMatch == \E pat \in SepFree : \E c \in Components(resp.path) :
                            fnmatch(c, pat)
            anyMatch == \E pat \in Registered :
                            \/ fnmatch(resp.path, pat)
                            \/ \E c \in Components(resp.path) : fnmatch(c, pat)
        IN  /\ Registered = {} => ~resp.ignored
            /\ nameMatch => resp.ignored
            /\ ~anyMatch => ~resp.ignored

\* Claim C15: the registry of ignore patterns is a set: empty at first, an
\* add leaves the old patterns and adds the new one unless it is there
\* already, a remove takes away that pattern and no other, and the listing
\* has every registered pattern exactly once.
C15_RegistryIsASet ==
    /\ resp = NoResp => ignore_patterns = << >>
    /\ resp.op = "add_ignore_pattern" =>
          /\ Registered = SeqToSet(resp.before) \cup {resp.pattern}
          /\ resp.pattern \in SeqToSet(resp.before) => ignore_patterns = resp.before
    /\ resp.op = "remove_ignore_pattern" =>
          Registered = SeqToSet(resp.before) \ {resp.pattern}
    /\ resp.op = "get_ignore_patterns" =>
          /\ SeqToSet(resp.patterns) = Registered
          /\ Len(resp.patterns) = Cardinality(Registered)

\* A pattern that was registered is added again and then listed.
C15_Witness ==
    /\ resp.op = "add_ignore_pattern"
    /\ resp.pattern \in SeqToSet(resp.before)
    /\ Len(ignore_patterns) >= 2

-----------------------------------------------------------------------------
(* Properties of the watcher. *)

\* The positions in a list of events that are about a path.
EventsOf(events, path) == {i \in 1..Len(events) : events[i].path = path}

\* The last position of a non-empty set of positions.
Last(S) == CHOOSE i \in S : \A j \in S : j <= i

\* Claim C20: the pending map never holds two events of one path, and a drain
\* applies, for every path that had an event queued since the previous
\* drain, exactly one event, with the kind and the is_directory flag of the
\* last one queued for that path, and nothing for any other path.
C20_LastEventWins ==
    /\ \A path \in EventPaths : Cardinality(EventsOf(pending_events, path)) <= 1
    /\ resp.op = "process_pending_events" =>
          \A path \in EventPaths :
              LET q == EventsOf(resp.queued, path)
                  a == EventsOf(resp.applied, path)
              IN  IF q = {} THEN a = {}
                  ELSE /\ Cardinality(a) = 1
                       /\ \A i \in a : resp.applied[i] = resp.queued[Last(q)]

\* A drain after one path was queued twice with different kinds.
C20_Witness ==
    /\ resp.op = "process_pending_events"
    /\ \E path \in EventPaths :
          \E i \in EventsOf(resp.queued, path), j \in EventsOf(resp.queued, path) :
              /\ i < j
              /\ resp.queued[i].event_type # resp.queued[j].event_type
              /\ resp.queued[i].is_directory # resp.queued[j].is_directory

-----------------------------------------------------------------------------
(* Properties of the threads. *)

\* Every thread has made all its calls.
WritersDone == \A t \in Threads : conn[t].pc = "idle" /\ conn[t].calls = MaxWrites

\* Claim C16: when every thread calls add_file MaxWrites times on paths of
\* its own, no call raises "database is locked" (or any other error), and
\* once all calls are made the index holds one entry per call.
C16_ConcurrentWrites ==
    /\ \A t \in Threads : conn[t].error = "none"
    /\ WritersDone => Cardinality(file_metadata) = Cardinality(Threads) * MaxWrites

\* All the threads' calls are made, the last of them while the other thread
\* had already finished.
C16_Witness ==
    /\ WritersDone
    /\ Cardinality(file_metadata) = Cardinality(Threads) * MaxWrites
    /\ IndexedPaths = {WriterPath(t, i) : t \in Threads, i \in 1..MaxWrites}

\* Thread t is inside a database write: it is about to execute the write
\* statements of a call, or has executed them and not yet committed.
InsideWrite(t) == conn[t].pc \in {"entered", "executed"}

\* Claim C17: a thread that is inside a database write holds the store's
\* mutex, so that no two threads are inside a write at once.
C17_WritesHoldTheMutex ==
    /\ \A t \in Threads : InsideWrite(t) => lock = t
    /\ \A t, u \in Threads : InsideWrite(t) /\ InsideWrite(u) => t = u

\* The paths of the records of a batch that can be bound.
BatchPaths(b) == {b[i] : i \in {j \in 1..Len(b) : b[j] # P_bad}}

\* Claim C18: a read finds committed rows only, and of every batch it finds
\* all the records or none.
C18_ReadsSeeWholeBatches ==
    resp.op = "read" =>
        /\ resp.paths = IndexedPaths
        /\ \A b \in {GoodBatch, BadBatch} :
              BatchPaths(b) \subseteq resp.paths \/ BatchPaths(b) \cap resp.paths = {}

\* Claim C19: no record of a batch whose batch_add_files call failed is in
\* the index, however many calls the same thread has made since.
C19_FailedBatchLeavesNothing ==
    \A t \in Threads : conn[t].failed \cap IndexedPaths = {}

-----------------------------------------------------------------------------
(* Properties of overlapping drains. *)

\* No event is pending and no drain is running.
Quiescent == pending_events = << >> /\ tasks = << >>

\* Claim C21: once the watcher is quiescent the index reflects the last
\* event observed for every path: the path is indexed if that event was
\* created or modified, and not indexed if it was deleted.
C21_LastObservedEventWins ==
    Quiescent =>
        \A path \in EventPaths :
            /\ Observed[path] \in {"created", "modified"} => path \in IndexedPaths
            /\ Observed[path] = "deleted" => path \notin IndexedPaths

\* Claim C22: when the last event the watcher received for a path is
\* deleted and every timer has fired and every drain has ended, get_file of
\* that path finds nothing.
C22_DeletedIsRemoved ==
    \A path \in EventPaths :
        (Quiescent /\ Observed[path] = "deleted") =>
            ~(\E e \in file_metadata : e.path = path)


-----------------------------------------------------------------------------
(* Properties of the crawl. *)

\* Claim C24: a crawl of a root hands every record it discovers, the direct
\* children of the root and all their descendants, to the store: when the
\* crawl has returned, every entry on disk under the root is indexed and the
\* count it returned is the number of entries discovered.
C24_CrawlHandsOverEveryRecord ==
    lastOp.op = "crawl" =>
        LET discovered == {p \in DiskPaths : IsRelativeTo(p, lastOp.path)}
        IN  /\ discovered \subseteq IndexedPaths
            /\ lastOp.count = Cardinality(discovered)

\* The paths of the index and of the disk under the crawled root.
IndexedUnder(R) == {p \in IndexedPaths : IsRelativeTo(p, R)}
OnDiskUnder(R) == {p \in disk : IsRelativeTo(p, R)}

\* Claim C23: when a crawl and watcher events touch the same paths, the index
\* converges: once the crawl has returned and the watcher has drained every
\* event, the indexed paths under the root are the paths on disk under it (no
\* pattern is registered, so none is ignored).
C23_CrawlAndWatcherConverge ==
    (CrawlState = "returned" /\ Quiescent) =>
        IndexedUnder(Root) = OnDiskUnder(Root)

-----------------------------------------------------------------------------
(* Properties of the coordinator's tasks. *)

\* Claim C25: whenever the crawl of a root raises, at startup or in an add-path
\* or rebuild task, the step that catches the exception leaves the root with
\* the status error and the exception's message in error_message, and the
\* task that caught it goes on (startup with what follows its loop).
C25_CrawlErrorIsRecorded ==
    [][\A p \in Procs :
          (CrawlBegin(p) /\ ~disk_ok) =>
              /\ Root \in DOMAIN watch_paths'
              /\ watch_paths'[Root].status = "error"
              /\ watch_paths'[Root].error_message = "Directory not found"
              /\ Kind(p) = "startup" => startup'.pc = "tri"]_vars

\* The status of the root in the registry ("absent" when it has no row).
StatusOf(wp) == IF Root \in DOMAIN wp THEN wp[Root].status ELSE "absent"

\* A step of start_indexing.
StartupSteps == startup' # startup

C28_WatchingRootsAreSubscribed ==
    (startup.pc = "started" /\ \A i \in 1..Len(tasks) : tasks[i].pc = "done") =>
        \A w \in DOMAIN watch_paths :
            watch_paths[w].status = "watching" => w \in watcher.scheduled

\* Claim C27: on shutdown the pending events are flushed before the watcher
\* stops and the store's connection is closed: once the watcher has stopped no
\* event waits in the map and no drain is still applying one, so no timer
\* writes to the store after close.
C27_FlushedBeforeStop ==
    startup.pc \in {"stopped", "closed"} => Quiescent

-----------------------------------------------------------------------------
(* Properties of the removal of a root. *)

\* Claim C29: once no crawl task runs and the watcher has drained its events,
\* every entry of the index lies under a registered root, also when the root
\* was removed while its crawl was running or while the watcher still
\* reported its events.
C29_EntriesLieUnderARoot ==
    Quiescent =>
        \A p \in IndexedPaths : \E w \in DOMAIN watch_paths : IsUnder(p, w)

\* Claim C30: remove_path(R) deletes only the entries under R by component
\* boundary: in the step that removes the root, every entry whose path is
\* neither R nor below R is left as it was, and so is every other root.
C30_RemovePathFrame ==
    [][(Root \in DOMAIN watch_paths /\ Root \notin DOMAIN watch_paths') =>
          /\ \A e \in file_metadata : ~IsUnder(e.path, Root) => e \in file_metadata'
          /\ \A w \in DOMAIN watch_paths \ {Root} :
                w \in DOMAIN watch_paths' /\ watch_paths'[w] = watch_paths[w]]_vars

-----------------------------------------------------------------------------
(* Properties of searches between rebuilds. *)

\* Claim C31: every entry a 2-character search returns has a name that
\* contains the query, also after entries were added, removed or replaced
\* without a rebuild of the bigram index in between.
C31_BigramResultsMatch ==
    (resp.op = "search" /\ Len(resp.req.query) = 2) =>
        \A i \in 1..Len(resp.result) : IsSubstr(resp.req.query, resp.result[i].name)

-----------------------------------------------------------------------------
(* Properties of the service across restarts. *)

\* Claim C32: no root stays scanning forever: a root that is scanning, whether
\* it was marked by this run or by a run that stopped in the middle of its
\* crawl, eventually is watching or in error.
C32_ScanningEnds ==
    (StatusOf(watch_paths) = "scanning") ~> (StatusOf(watch_paths) \in {"watching", "error"})

\* Task or startup p is between the queuing of its crawl and the crawl's return.
CrawlInProgress(p) == Pc(p) \in {"queued", "removed", "registered", "ready", "crawling"}

\* Claim C33: whenever get_status reports ready, no crawl or rebuild task is in
\* progress for the root, also when two rebuild requests for it overlap
\* (get_status is a handler, so it runs when the event loop is idle).
C33_ReadyMeansNoCrawl ==
    (LoopIdle /\ get_status(DB).ready) => \A p \in Procs : ~CrawlInProgress(p)

-----------------------------------------------------------------------------
(* Properties of the debounce. *)

\* Claim C34: every event queued in the watcher is applied to the store (or
\* superseded) once events stop arriving.  Checked at its last stage: when the
\* drain on the timer's thread calls add_file for a created event while the
\* event loop's thread makes no call, the write is executed and does not end
\* in an error that drops the event.
C34_EventsAreApplied ==
    [][(conn # << >> /\ conn["worker"].pc = "entered" /\ conn["loop"].pc = "idle"
          /\ conn'["worker"] # conn["worker"]) =>
            /\ conn'["worker"].pc = "executed"
            /\ conn'["worker"].error = "none"]_vars

-----------------------------------------------------------------------------
(* Properties of the events the watcher applies. *)

\* The rows of the index that hold path p.
RowsOfPath(md, p) == {e \in md : e.path = p}

\* Claim C35: a drain that applies a created or modified event of a path
\* leaves the path's rows as they are when the path is not on disk, and
\* otherwise leaves exactly one row for it, with the record the crawler derives
\* for the path; and the pending map never holds a modified event of a
\* directory or an event of an ignored path.
C35_AppliedAsTheCrawlerDerives ==
    [][/\ (lastOp.op = "queue_event" /\ lastOp'.op = "process_pending_events") =>
            \A i \in 1..Len(pending_events) :
                LET ev == pending_events[i]
                IN  ev.event_type \in {"created", "modified"} =>
                      IF ev.path \notin disk
                      THEN RowsOfPath(file_metadata', ev.path)
                               = RowsOfPath(file_metadata, ev.path)
                      ELSE /\ Cardinality(RowsOfPath(file_metadata', ev.path)) = 1
                           /\ \A e \in RowsOfPath(file_metadata', ev.path) :
                                  e = MkRow(e.id, MkFileInfo(ev.path, FirstSize))
       /\ \A i \in 1..Len(pending_events') :
              /\ ~(pending_events'[i].event_type = "modified"
                     /\ pending_events'[i].is_directory)
              /\ ~is_ignored(ignore_patterns, pending_events'[i].path)]_vars

\* Claim C36: a move is queued as deleted(src) followed by created(dst), so
\* that after the drain no entry is left for a path that was moved away and
\* an entry is present for every path that was moved to and is not ignored;
\* a move from A to B and back within one window leaves A indexed and B not.
C36_MovedIsDeletedThenCreated ==
    lastOp.op = "process_pending_events" =>
        \A p \in MovePaths :
            /\ p \notin disk => p \notin IndexedPaths
            /\ (p \in disk /\ ~is_ignored(ignore_patterns, p)) => p \in IndexedPaths

-----------------------------------------------------------------------------
(* Properties of a crawl whose root cannot be opened. *)

\* Claim C37: a crawl whose root cannot be opened (missing, not a directory or
\* unreadable) is aborted with an error that reaches the coordinator: the
\* step in which the crawl meets the root it cannot open leaves the root with
\* the status error, never watching.
C37_RootErrorEndsInError ==
    [][\A p \in Procs :
          ((CrawlBegin(p) \/ CrawlEnd(p)) /\ ~disk_ok) =>
              StatusOf(watch_paths') = "error"]_vars

-----------------------------------------------------------------------------
(* Properties of the registry's roots. *)

\* Claim C38: no two registered roots cover one another: after any sequence
\* of registrations and add-path requests there are no two distinct roots of
\* which one is an ancestor of the other.
C38_NoRootCoversAnother ==
    \A w1 \in DOMAIN watch_paths, w2 \in DOMAIN watch_paths :
        w1 # w2 => ~IsRelativeTo(w1, w2)

-----------------------------------------------------------------------------
(* Properties of the entries. *)

\* Claim C39: every entry the crawler or the watcher has written keeps the
\* entry invariants: a directory has size 0 and no extension, the name is the
\* final component of the path (it holds no separator) and parent_path is the
\* directory that contains it, so that parent_path, a separator and the name
\* make up the path.
C39_EntryInvariants ==
    \A e \in file_metadata :
        /\ e.type = "directory" => (e.size = 0 /\ e.extension = "None")
        /\ e.name # << >>
        /\ \A i \in 1..Len(e.name) : e.name[i] # "/"
        /\ e.path = (IF e.parent_path = <<"/">> THEN <<"/">>
                     ELSE e.parent_path \o <<"/">>) \o e.name

\* The index holds a directory the crawler wrote and a directory the drain
\* has just written for a created event.
C39_Witness ==
    /\ resp.op = "process_pending_events"
    /\ \E i \in 1..Len(resp.applied) :
          /\ resp.applied[i].event_type = "created"
          /\ resp.applied[i].is_directory
          /\ \E e \in file_metadata :
                e.path = resp.applied[i].path /\ e.type = "directory"
    /\ \E e \in file_metadata : e.path = P_e /\ e.type = "directory"

=============================================================================
